---- MODULE Spec2Model ----
(***************************************************************************)
(* Model of the image-processing operation library of the repository      *)
(* (src/Backend/operations, the FastAPI layer src/Backend/main.py and the  *)
(* OpenCV-based twin src/ops used by the desktop GUI src/main.py).         *)
(*                                                                         *)
(* A pixel buffer is a record                                              *)
(*     [h, w, ch, dt, px]                                                  *)
(* h x w the numpy shape, ch = 0 for a 2-D (grayscale) array and ch = 3   *)
(* for an h x w x 3 array, dt the numpy dtype and px[i][j] the sample (an  *)
(* integer for ch = 0, a 3-tuple <<c0, c1, c2>> for ch = 3).  Indices are  *)
(* 1-based here and 0-based in the source.                                 *)
(*                                                                         *)
(* Floating-point intermediates are computed exactly over the rationals;   *)
(* the final astype(np.uint8) truncates toward zero.  Where the exact      *)
(* value is so close to an integer that the rounding of the float          *)
(* operations decides the truncated result, the side the computed value    *)
(* falls on is a choice (the low sets).  A cast of NaN or of a value       *)
(* outside [0,255] to uint8 is undefined in the source's build and is a    *)
(* choice over UBOutcomes.                                                 *)
(***************************************************************************)
EXTENDS Integers, Sequences, FiniteSets, TLC

VARIABLES
    image,    \* the caller's array object, as it is now
    given,    \* its content when the caller supplied it
    call,     \* the last library call: [op |-> name, ...parameters]
    result,   \* what that call returned (or raised)
    writes,   \* how many samples the caller has stored into the result since
    image_states,  \* the server's sessions: session_id -> original, working, history
    before,        \* image_states as it was when the last request arrived
    uploaded,      \* session_id -> the image decoded by the upload that created it
    window         \* the desktop GUI's MainWindow: its cached images and panels

vars == <<image, given, call, result, writes, image_states, before, uploaded, window>>
server == <<image_states, before, uploaded, window>>

(***************************************************************************)
(* Bounds of the model.                                                    *)
(***************************************************************************)
MaxH == 3
MaxW == 3
MaxK == 4
MaxWrites == 1
MaxZone == 6               \* the windows next to an integer a filter call is followed with

(***************************************************************************)
(* Arithmetic helpers.                                                     *)
(***************************************************************************)
Abs(x) == IF x < 0 THEN -x ELSE x
MaxOf(S) == CHOOSE x \in S : \A y \in S : y <= x
MinOf(S) == CHOOSE x \in S : \A y \in S : x <= y
Clamp(x, lo, hi) == IF x < lo THEN lo ELSE IF x > hi THEN hi ELSE x
\* num/den truncated toward zero (den > 0), as a C float-to-integer cast does
TruncDiv(num, den) == IF num >= 0 THEN num \div den ELSE -((-num) \div den)
RECURSIVE Pow2(_)
Pow2(n) == IF n = 0 THEN 1 ELSE 2 * Pow2(n - 1)

(***************************************************************************)
(* Buffers.                                                                *)
(***************************************************************************)
Buf(h, w, ch, dt, px) == [h |-> h, w |-> w, ch |-> ch, dt |-> dt, px |-> px]

Shape(b) == <<b.h, b.w, b.ch>>
Pos(b) == (1..b.h) \X (1..b.w)
\* the scalar samples of a buffer
Samples(b) ==
    IF b.ch = 0 THEN {b.px[p[1]][p[2]] : p \in Pos(b)}
    ELSE {b.px[p[1]][p[2]][k] : p \in Pos(b), k \in 1..b.ch}
\* image[:,:,k]
Channel(b, k) == Buf(b.h, b.w, 0, b.dt, [i \in 1..b.h |-> [j \in 1..b.w |-> b.px[i][j][k]]])
\* an h x w x 3 array from three planes
Stack3(b1, b2, b3, dt) ==
    Buf(b1.h, b1.w, 3, dt, [i \in 1..b1.h |-> [j \in 1..b1.w |-> <<b1.px[i][j], b2.px[i][j], b3.px[i][j]>>]])
IsConstant(b) == Cardinality(Samples(b)) = 1

(***************************************************************************)
(* The undefined float -> uint8 cast.  ub.nan is what a NaN becomes,       *)
(* ub.oor how an out-of-range value is folded.                             *)
(***************************************************************************)
UBOutcomes == [nan : {0, 255}, oor : {"wrap", "saturate"}]

\* astype(np.uint8) of a float that truncates to the integer t
CastTruncated(t, ub) ==
    IF t >= 0 /\ t <= 255 THEN t
    ELSE IF ub.oor = "wrap" THEN t % 256
    ELSE Clamp(t, 0, 255)

\* (num/den).astype(np.uint8), den > 0
CastU8(num, den, ub) == CastTruncated(TruncDiv(num, den), ub)

\* whether num/den (den > 0) truncates to a value uint8 cannot hold
OutOfU8(num, den) == TruncDiv(num, den) < 0 \/ TruncDiv(num, den) > 255

(***************************************************************************)
(* Input images: small uint8 buffers, grayscale and 3-channel.             *)
(***************************************************************************)
PixVals == {0, 100, 255}
Palette == {<<0, 0, 0>>, <<100, 50, 200>>, <<30, 200, 90>>}

PatternsOver(h, w, ch, V) ==
    {Buf(h, w, ch, "uint8", [i \in 1..h |-> [j \in 1..w |-> a]]) : a \in V}
    \cup {Buf(h, w, ch, "uint8", [i \in 1..h |-> [j \in 1..w |-> IF (i + j) % 2 = 0 THEN a ELSE b]]) :
            a \in V, b \in V}
    \cup {Buf(h, w, ch, "uint8", [i \in 1..h |-> [j \in 1..w |-> IF j = 1 THEN a ELSE b]]) :
            a \in V, b \in V}
    \cup {Buf(h, w, ch, "uint8", [i \in 1..h |-> [j \in 1..w |-> IF i = 1 THEN a ELSE b]]) :
            a \in V, b \in V}
    \cup {Buf(h, w, ch, "uint8", [i \in 1..h |-> [j \in 1..w |-> IF i = h /\ j = w THEN a ELSE b]]) :
            a \in V, b \in V}

GrayImages == UNION {PatternsOver(h, w, 0, PixVals) : h \in 1..MaxH, w \in 1..MaxW}
ColorImages == UNION {PatternsOver(h, w, 3, Palette) : h \in 1..MaxH, w \in 1..MaxW}
Images == GrayImages \cup ColorImages

(***************************************************************************)
(* cv2.cvtColor(image, cv2.COLOR_BGR2GRAY): OpenCV's fixed-point luma.     *)
(***************************************************************************)
cvtColorGray(b) ==
    Buf(b.h, b.w, 0, "uint8",
        [i \in 1..b.h |-> [j \in 1..b.w |-> (b.px[i][j][1] * 1868 + b.px[i][j][2] * 9617
                       + b.px[i][j][3] * 4899 + 8192) \div 16384]])

\* the "if len(image.shape) == 3: cvtColor else: image.copy()" prologue
ToGray(b) == IF b.ch = 3 THEN cvtColorGray(b) ELSE b

(***************************************************************************)
(* edge_detection.py                                                       *)
(***************************************************************************)
SobelKx == <<<<-1, 0, 1>>, <<-2, 0, 2>>, <<-1, 0, 1>>>>
SobelKy == <<<<-1, -2, -1>>, <<0, 0, 0>>, <<1, 2, 1>>>>
PrewittKx == <<<<-1, 0, 1>>, <<-1, 0, 1>>, <<-1, 0, 1>>>>
PrewittKy == <<<<-1, -1, -1>>, <<0, 0, 0>>, <<1, 1, 1>>>>
RobertsKx == <<<<1, 0>>, <<0, -1>>>>
RobertsKy == <<<<0, 1>>, <<-1, 0>>>>

\* np.pad(image, pad, mode='edge')[r][c], r and c 1-based in the padded array
PadEdge(b, pad, r, c) == b.px[Clamp(r - pad, 1, b.h)][Clamp(c - pad, 1, b.w)]

\* padded[i:i+k, j:j+k] is cut short at the padded array's border, which happens
\* for pad = 0 (roberts_edge, k = 2): the cut axis has length 1 there and numpy
\* broadcasts it against the kernel, so the last row (column) is used twice.
SliceLen(start, k, n) == IF start + k - 1 <= n THEN k ELSE n - start + 1
BroadcastIdx(start, a, len, k) == IF len = k THEN start + a - 1 ELSE start

RECURSIVE SumSeq(_)
SumSeq(s) == IF s = <<>> THEN 0 ELSE Head(s) + SumSeq(Tail(s))

convolve2d_edge(b, kernel, pad) ==
    LET k == Len(kernel)
        H == b.h + 2 * pad
        W == b.w + 2 * pad
        At(i, j) ==
            LET rl == SliceLen(i, k, H)
                cl == SliceLen(j, k, W)
            IN  SumSeq([a \in 1..k |->
                    SumSeq([c \in 1..k |->
                        PadEdge(b, pad, BroadcastIdx(i, a, rl, k),
                                        BroadcastIdx(j, c, cl, k)) * kernel[a][c]])])
    \* (a row \o <<>> is the row itself, held as a tuple)
    IN  Buf(b.h, b.w, 0, "float32",
            [i \in 1..b.h |-> [j \in 1..b.w |-> At(i, j)] \o <<>>] \o <<>>)

\* a * b as <<high, low>> in base 1024, for 0 <= a <= 65025 and 0 <= b < 2^21
\* (the product itself does not fit TLC's 32-bit integers)
Wide(a, b) ==
    LET hi == a * (b \div 1024)
        lo == a * (b % 1024)
    IN  <<hi + (lo \div 1024), lo % 1024>>
WideLeq(x, y) == x[1] < y[1] \/ (x[1] = y[1] /\ x[2] <= y[2])

\* whether 0 <= y - x <= t, for wide x and y and t < 2^20
WideNear(x, y, t) ==
    /\ WideLeq(x, y)
    /\ y[1] - x[1] <= t \div 1024 + 1
    /\ (y[1] - x[1]) * 1024 + y[2] - x[2] <= t

\* floor(255 * sqrt(s / m)) for 0 <= s <= m, m > 0: the n of 0..255 with
\* n^2 * m <= 255^2 * s < (n + 1)^2 * m
FloorRoot(s, m) ==
    LET RECURSIVE Search(_, _)
        Search(lo, hi) ==
            IF lo = hi THEN lo
            ELSE LET mid == (lo + hi + 1) \div 2
                 IN  IF WideLeq(Wide(mid * mid, m), Wide(65025, s))
                     THEN Search(mid, hi)
                     ELSE Search(lo, mid - 1)
    IN  Search(0, 255)

\* np.sqrt(gx**2 + gy**2) / magnitude.max() * 255 is computed in float32: the
\* two square roots, the quotient and the product are rounded, each by at most
\* 2^-24 of its value, so the square of the computed value lies within 2^-21
\* of 255^2 * s / m.  RootMargin is that distance, as a bound on 255^2 * s
\* - n^2 * m.  0 / max and max / max are exact.
RootMargin(s) == Wide(65025, s)[1] \div 2048 + 1

\* the integer the exact value is that close to, from either side, or -1
NearInteger(s, m) ==
    LET n == FloorRoot(s, m)
    IN  IF s = 0 \/ s = m THEN -1
        ELSE IF WideNear(Wide(n * n, m), Wide(65025, s), RootMargin(s)) THEN n
        ELSE IF n < 255 /\ WideNear(Wide(65025, s), Wide((n + 1) * (n + 1), m),
                                    RootMargin(s)) THEN n + 1
        ELSE -1

\* (np.sqrt(s) / np.sqrt(m) * 255).astype(np.uint8): the exact value truncated,
\* except next to an integer, where the float32 value falls below that integer
\* (s in low) or not
ScaledRoot(s, m, low) ==
    LET n == NearInteger(s, m)
    IN  IF n = -1 THEN FloorRoot(s, m)
        ELSE IF s \in low THEN n - 1
        ELSE n

\* the squared magnitudes of a pair of gradients whose scaled root is next to
\* an integer; equal squares with the same maximum give equal float32 values
MagnitudeZone(gx, gy) ==
    LET sq == {gx.px[p[1]][p[2]] * gx.px[p[1]][p[2]] + gy.px[p[1]][p[2]] * gy.px[p[1]][p[2]] :
                  p \in Pos(gx)}
        m == MaxOf(sq)
    IN  IF m = 0 THEN {} ELSE {s \in sq : NearInteger(s, m) # -1}

\* what a build makes of the float operations of one call: ub.nan and ub.oor
\* as in UBOutcomes, and ub.low the inputs of zone whose float32 (float64)
\* value falls below the integer it is next to
FloatOutcomes(zone) ==
    {[nan |-> u.nan, oor |-> u.oor, low |-> L] : u \in UBOutcomes, L \in SUBSET zone}

\* magnitude = np.sqrt(gx**2 + gy**2); (magnitude / magnitude.max() * 255).astype(np.uint8)
\* with no guard on magnitude.max() == 0.  nan records that 0/0 was computed.
MagnitudeU8(gx, gy, ub) ==
    LET Sq(i, j) == gx.px[i][j] * gx.px[i][j] + gy.px[i][j] * gy.px[i][j]
        m == MaxOf({Sq(p[1], p[2]) : p \in Pos(gx)})
    IN  [buf |-> Buf(gx.h, gx.w, 0, "uint8",
                     [i \in 1..gx.h |-> [j \in 1..gx.w |->
                        IF m = 0 THEN ub.nan ELSE ScaledRoot(Sq(i, j), m, ub.low)]]),
         nan |-> (m = 0), oor |-> FALSE]

\* a / m in float32, for integers a >= 0 and m > 0 (both below 2^11): <<M, e>>
\* with M * 2^-e the quotient rounded to 24 significant bits, to nearest and
\* ties to even, by long division; <<0, 0>> for a = 0
Float32Quotient(a, m) ==
    LET RECURSIVE Bits(_, _, _)
        Bits(q, r, e) ==
            IF q >= Pow2(23) THEN <<q, r, e>>
            ELSE Bits(2 * q + (2 * r) \div m, (2 * r) % m, e + 1)
        x == Bits(a \div m, a % m, 0)
        up == 2 * x[2] > m \/ (2 * x[2] = m /\ x[1] % 2 = 1)
    IN  IF a = 0 THEN <<0, 0>>
        ELSE <<IF up THEN x[1] + 1 ELSE x[1], x[3]>>

\* (M * 2^-e) * 255 in float32, truncated to an integer: the product M * 255,
\* held as hi * 4096 + lo, has 31 or 32 bits, of which the float keeps 24
Float32Times255(M, e) ==
    LET hi0 == (M \div 4096) * 255
        lo0 == (M % 4096) * 255
        hi == hi0 + lo0 \div 4096
        lo == lo0 % 4096
        d == IF hi >= Pow2(19) THEN 8 ELSE 7
        kept == hi * Pow2(12 - d) + lo \div Pow2(d)
        rest == lo % Pow2(d)
        K == IF rest > Pow2(d - 1) \/ (rest = Pow2(d - 1) /\ kept % 2 = 1)
             THEN kept + 1 ELSE kept
    IN  IF d >= e THEN K * Pow2(d - e) ELSE K \div Pow2(e - d)

\* v / m * 255 as the float32 operations give it, truncated toward zero (m # 0)
ScaledByMax(v, m) ==
    LET q == Float32Quotient(Abs(v), Abs(m))
        t == IF q[1] = 0 THEN 0 ELSE Float32Times255(q[1], q[2])
    IN  IF (v < 0) # (m < 0) THEN -t ELSE t

\* (g / g.max() * 255).astype(np.uint8), no guard.  oor records that a value
\* outside [0,255] (a negative quotient, an infinity) reached the cast.
ScaleByMaxU8(g, ub) ==
    LET m == MaxOf(Samples(g))
    IN  [buf |-> Buf(g.h, g.w, 0, "uint8",
                     [i \in 1..g.h |-> [j \in 1..g.w |->
                        IF m = 0 THEN
                            (IF g.px[i][j] = 0 THEN ub.nan
                             ELSE IF ub.oor = "wrap" THEN 0 ELSE Clamp(g.px[i][j], 0, 255))
                        ELSE CastTruncated(ScaledByMax(g.px[i][j], m), ub)]]),
         nan |-> (m = 0),
         oor |-> \E v \in Samples(g) :
                    IF m = 0 THEN v # 0
                    ELSE ScaledByMax(v, m) < 0 \/ ScaledByMax(v, m) > 255]

\* ... if g.max() > 0 else g   (the guarded form used by roberts_edge)
ScaleByMaxGuarded(g, ub) ==
    IF MaxOf(Samples(g)) > 0 THEN ScaleByMaxU8(g, ub) ELSE [buf |-> g, nan |-> FALSE, oor |-> FALSE]

AbsBuf(g) == Buf(g.h, g.w, 0, g.dt, [i \in 1..g.h |-> [j \in 1..g.w |-> Abs(g.px[i][j])]])

EdgeResult(mag, gx, gy) ==
    [status |-> "ok", alias |-> FALSE,
     magnitude |-> mag.buf, grad_x |-> gx.buf, grad_y |-> gy.buf,
     nan |-> {n \in {"magnitude", "grad_x", "grad_y"} :
                 \/ n = "magnitude" /\ mag.nan
                 \/ n = "grad_x" /\ gx.nan
                 \/ n = "grad_y" /\ gy.nan},
     oor |-> {n \in {"magnitude", "grad_x", "grad_y"} :
                 \/ n = "magnitude" /\ mag.oor
                 \/ n = "grad_x" /\ gx.oor
                 \/ n = "grad_y" /\ gy.oor}]

sobel_edge(b, ub) ==
    LET gray == ToGray(b)
        gx == convolve2d_edge(gray, SobelKx, 1)
        gy == convolve2d_edge(gray, SobelKy, 1)
    IN  EdgeResult(MagnitudeU8(gx, gy, ub), ScaleByMaxU8(AbsBuf(gx), ub), ScaleByMaxU8(gy, ub))

prewitt_edge(b, ub) ==
    LET gray == ToGray(b)
        gx == convolve2d_edge(gray, PrewittKx, 1)
        gy == convolve2d_edge(gray, PrewittKy, 1)
    IN  EdgeResult(MagnitudeU8(gx, gy, ub), ScaleByMaxU8(AbsBuf(gx), ub), ScaleByMaxU8(gy, ub))

roberts_edge(b, ub) ==
    LET gray == ToGray(b)
        gx == convolve2d_edge(gray, RobertsKx, 0)
        gy == convolve2d_edge(gray, RobertsKy, 0)
    IN  EdgeResult(MagnitudeU8(gx, gy, ub),
                   ScaleByMaxGuarded(AbsBuf(gx), ub), ScaleByMaxGuarded(gy, ub))

\* the float outcomes of one edge call on image b
EdgeOutcomes(b, kernel_x, kernel_y, pad) ==
    FloatOutcomes(MagnitudeZone(convolve2d_edge(ToGray(b), kernel_x, pad),
                                convolve2d_edge(ToGray(b), kernel_y, pad)))

(***************************************************************************)
(* noise.py (Backend) and ops/noise_ops.py (GUI).                          *)
(*                                                                         *)
(* Real-valued parameters and random draws are in thousandths: a ratio of  *)
(* 0.1 is 100, a draw of np.random.random() in [0,1) is in 0..999.  A      *)
(* Gaussian draw is mean + sigma * z and a uniform draw low + t * (high -  *)
(* low), with z and t (in halves) the underlying standard draws.           *)
(***************************************************************************)
RatioMax == 100        \* the 0.1 of "ratio = max(0, min(0.1, ratio))"
SigmaMax == 50         \* the 50 of "sigma = max(0, min(50, sigma))"

\* a random field: one draw per pixel position
FieldsOver(b, V) ==
    {[i \in 1..b.h |-> [j \in 1..b.w |-> IF (i + j) % 2 = 0 THEN a ELSE c]] :
        a \in V, c \in V}
\* one draw per sample: the field of a 2-D array, or one field per channel
SampleFieldsOver(b, V) ==
    {[i \in 1..b.h |-> [j \in 1..b.w |->
        IF b.ch = 0 THEN (IF (i + j) % 2 = 0 THEN a ELSE c)
        ELSE <<IF (i + j) % 2 = 0 THEN a ELSE c, IF (i + j) % 2 = 0 THEN c ELSE a, a>>]] :
        a \in V, c \in V}

DrawVals == {0, 60, 500, 960}
RatioVals == {-50, 0, 50, 1000}
SplitVals == {0, 500, 1000}
ZVals == {-2, 0, 1}
SigmaVals == {-5, 0, 25, 60}
MeanVals == {0, 10}
NoiseTypes == {"gaussian", "uniform", "salt_pepper", "poisson"}

\* noise = np.random.normal(mean, sigma, image.shape), z the standard draws
GaussianField(b, mean, sigma, z) ==
    [i \in 1..b.h |-> [j \in 1..b.w |->
        IF b.ch = 0 THEN mean + sigma * z[i][j]
        ELSE [k \in 1..3 |-> mean + sigma * z[i][j][k]]]]

\* noise = np.random.uniform(low, high, image.shape), t the draws in halves
UniformField(b, low, high, t) ==
    [i \in 1..b.h |-> [j \in 1..b.w |->
        IF b.ch = 0 THEN low + (t[i][j] * (high - low)) \div 2
        ELSE [k \in 1..3 |-> low + (t[i][j][k] * (high - low)) \div 2]]]

\* np.clip(noisy_image + noise, 0, 255).astype(np.uint8)
AddClipped(b, noise) ==
    Buf(b.h, b.w, b.ch, "uint8",
        [i \in 1..b.h |-> [j \in 1..b.w |-> IF b.ch = 0 THEN Clamp(b.px[i][j] + noise[i][j], 0, 255)
                      ELSE [k \in 1..3 |-> Clamp(b.px[i][j][k] + noise[i][j][k], 0, 255)]]])

\* The thresholds are products and differences of doubles.  ratio *
\* salt_vs_pepper is exact when a factor is 0 or salt_vs_pepper is 1 or a power
\* of two (0.5, 0.25, 0.125); otherwise it is rounded, and so is 1 - ratio *
\* (1 - salt_vs_pepper) unless it is 1.  A draw that equals a rounded threshold
\* in thousandths is next to it as a double, below or above: tie.salt and
\* tie.pepper tell whether such a draw passes the comparison.
SaltTie(d, ratio, split) ==
    /\ d * 1000 = ratio * split
    /\ ratio # 0
    /\ split \notin {0, 125, 250, 500, 1000}
PepperTie(d, ratio, split) ==
    /\ d * 1000 = 1000000 - ratio * (1000 - split)
    /\ ratio # 0
    /\ split # 1000

\* faulty variant: the salt comparison made non-strict
IsSalt_Leq(d, ratio, split, tie) == d * 1000 <= ratio * split

\* noisy[salt_pepper < ratio * salt_vs_pepper] = 255
\* noisy[salt_pepper > 1 - ratio * (1 - salt_vs_pepper)] = 0
IsSalt(d, ratio, split, tie) ==
    IF SaltTie(d, ratio, split) THEN tie.salt ELSE d * 1000 < ratio * split
IsPepper(d, ratio, split, tie) ==
    IF PepperTie(d, ratio, split) THEN tie.pepper
    ELSE d * 1000 > 1000000 - ratio * (1000 - split)

\* faulty variant: the salt_pepper branch without the clamp of ratio
SaltPepperBackend_NoClamp(b, ratio, split, draws, tie) ==
    LET Px(v, d) == IF IsPepper(d, ratio, split, tie) THEN 0
                    ELSE IF IsSalt(d, ratio, split, tie) THEN 255
                    ELSE v
    IN  Buf(b.h, b.w, b.ch, "uint8",
            [i \in 1..b.h |-> [j \in 1..b.w |-> IF b.ch = 0 THEN Px(b.px[i][j], draws[i][j])
                          ELSE [k \in 1..3 |-> Px(b.px[i][j][k], draws[i][j])]]])

\* the salt_pepper branch; the draw of a pixel is shared by its channels
\* (np.expand_dims + np.repeat)
SaltPepperBackend(b, ratio, split, draws, tie) ==
    LET r == Clamp(ratio, 0, RatioMax)
        Px(v, d) == IF IsPepper(d, r, split, tie) THEN 0
                    ELSE IF IsSalt(d, r, split, tie) THEN 255
                    ELSE v
    IN  Buf(b.h, b.w, b.ch, "uint8",
            [i \in 1..b.h |-> [j \in 1..b.w |-> IF b.ch = 0 THEN Px(b.px[i][j], draws[i][j])
                          ELSE [k \in 1..3 |-> Px(b.px[i][j][k], draws[i][j])]]])

\* the outcomes of the comparisons of one salt_pepper call: a choice where a
\* draw equals a rounded threshold, none otherwise
NoTie == [salt |-> FALSE, pepper |-> FALSE]
SaltPepperTies(b, ratio, split, draws) ==
    LET r == Clamp(ratio, 0, RatioMax)
        D == {draws[p[1]][p[2]] : p \in Pos(b)}
    IN  [salt : IF \E d \in D : SaltTie(d, r, split) THEN BOOLEAN ELSE {FALSE},
         pepper : IF \E d \in D : PepperTie(d, r, split) THEN BOOLEAN ELSE {FALSE}]

\* add_noise(image, noise_type, params); p holds the parameters and the draws.
\* An unrecognised noise_type matches no branch: the float copy is clipped and
\* returned.
add_noise(b, noise_type, p) ==
    [status |-> "ok", alias |-> FALSE,
     buf |->
        IF noise_type = "gaussian" THEN
            AddClipped(b, GaussianField(b, p.mean, Clamp(p.sigma, 0, SigmaMax), p.z))
        ELSE IF noise_type = "uniform" THEN
            AddClipped(b, UniformField(b, p.low, p.high, p.t))
        ELSE IF noise_type = "salt_pepper" THEN
            SaltPepperBackend(b, p.ratio, p.split, p.draws, p.tie)
        ELSE Buf(b.h, b.w, b.ch, "uint8", [i \in 1..b.h |-> [j \in 1..b.w |-> b.px[i][j]]])]

\* ops/noise_ops.py: add_salt_pepper_noise(image, amount, salt_vs_pepper)
add_salt_pepper_noise(b, amount, split, draws) ==
    [status |-> "ok", alias |-> FALSE,
     buf |->
        IF amount <= 0 THEN b
        ELSE LET Salt(d) == d * 1000 < amount * split
                 Pepper(d) == d < amount /\ ~Salt(d)
                 Px(v, d) == IF Pepper(d) THEN 0 ELSE IF Salt(d) THEN 255 ELSE v
             IN  Buf(b.h, b.w, b.ch, "uint8",
                     [i \in 1..b.h |-> [j \in 1..b.w |-> IF b.ch = 0 THEN Px(b.px[i][j], draws[i][j])
                                   ELSE [k \in 1..3 |-> Px(b.px[i][j][k], draws[i][j])]]])]

\* ops/noise_ops.py add_gaussian_noise(image, mean, sigma): cv2.randn(noise,
\* mean, sigma) with sigma used as passed; z the standard draws
add_gaussian_noise(b, mean, sigma, z) ==
    [status |-> "ok", alias |-> FALSE,
     buf |-> AddClipped(b, GaussianField(b, mean, sigma, z))]

(***************************************************************************)
(* enhancement.py and color_space.py                                       *)
(***************************************************************************)
RangeTypes == {"0-1", "0-255", "0-100"}

\* normalize_image(image, range_type): the guard is on max > 0 only, so a
\* non-zero constant buffer reaches (x - min) / (max - min) with max = min.
\* Every range_type other than '0-1' takes the [0,255] branch.
normalize_image(b, range_type, ub) ==
    LET mx == MaxOf(Samples(b))
        mn == MinOf(Samples(b))
        scale == IF range_type = "0-1" THEN 1 ELSE 255
        N(v) == IF mx > 0
                THEN (IF mx = mn THEN ub.nan ELSE CastU8((v - mn) * scale, mx - mn, ub))
                ELSE CastU8(v, 1, ub)
    IN  [status |-> "ok", alias |-> FALSE,
         nan |-> (mx > 0 /\ mx = mn),
         buf |-> Buf(b.h, b.w, b.ch, "uint8",
                     [i \in 1..b.h |-> [j \in 1..b.w |-> IF b.ch = 0 THEN N(b.px[i][j])
                                   ELSE [k \in 1..3 |-> N(b.px[i][j][k])]]])]

\* 0.299 * r + 0.587 * g + 0.114 * b, in thousandths
Luma(c) == 299 * c[1] + 587 * c[2] + 114 * c[3]

\* the colours of an image whose weighted sum is a whole number: the float64
\* weights are not exactly 0.299, 0.587 and 0.114, and the computed sum is that
\* number or just below it, by the rounding and the order of the additions
GrayZone(b) ==
    IF b.ch = 0 THEN {}
    ELSE {c \in {b.px[p[1]][p[2]] : p \in Pos(b)} : Luma(c) > 0 /\ Luma(c) % 1000 = 0}

\* rgb_to_grayscale(image): a 2-D input is returned as it is (the same array
\* object); otherwise np.dot(image[...,:3], [0.299, 0.587, 0.114]).astype(np.uint8).
\* low holds the colours of GrayZone whose computed sum falls below the whole
\* number.
rgb_to_grayscale(b, low) ==
    IF b.ch = 0 THEN [status |-> "ok", alias |-> TRUE, buf |-> b]
    ELSE [status |-> "ok", alias |-> FALSE,
          buf |-> Buf(b.h, b.w, 0, "uint8",
                      [i \in 1..b.h |-> [j \in 1..b.w |->
                         IF b.px[i][j] \in low /\ b.px[i][j] \in GrayZone(b)
                         THEN Luma(b.px[i][j]) \div 1000 - 1
                         ELSE Luma(b.px[i][j]) \div 1000]])]

(***************************************************************************)
(* filters.py.  A kernel is [w |-> integer weights, den |-> denominator]:  *)
(* the float weight of cell (a, c) is w[a][c] / den.                       *)
(***************************************************************************)
KSum(w) == SumSeq([a \in 1..Len(w) |-> SumSeq(w[a])])

\* np.ones((k, k)) / (k * k)
AverageKernel(k) == [w |-> [a \in 1..k |-> [c \in 1..k |-> 1]], den |-> k * k]

\* create_gaussian_kernel(size, sigma): exp(-(x^2 + y^2) / (2 sigma^2)), divided
\* by the sum.  sigma enters through e with exp(-1 / (2 sigma^2)) = 2^(-e), for
\* which every weight is the exact rational 2^(-e (x^2 + y^2)).
GaussExps == {1, 2}
create_gaussian_kernel(size, e) ==
    LET center == size \div 2
        dmax == 2 * center * center
        W(a, c) == Pow2(e * (dmax - ((a - 1 - center) * (a - 1 - center)
                                     + (c - 1 - center) * (c - 1 - center))))
        w == [a \in 1..size |-> [c \in 1..size |-> W(a, c)]]
    IN  [w |-> w, den |-> KSum(w)]

\* np.clip(x, 0, 255).astype(np.uint8) of the float num / den, den > 0: the
\* cast truncates
ClipU8(num, den) ==
    IF num <= 0 THEN 0 ELSE IF num >= 255 * den THEN 255 ELSE num \div den

\* The float32 weights of a kernel with den > 1 are rounded, and so are the
\* products and their sum: the computed window sum lies within 1 / FloatScale
\* of num / den, and on which side of an integer it falls depends on the
\* rounding and on the order of summation.  ClipU8Low and ClipU8High are the
\* casts of the lowest and highest sums; integer weights (den = 1) are exact.
FloatScale == Pow2(11)
ClipU8Low(num, den) ==
    IF den = 1 THEN ClipU8(num, den)
    ELSE ClipU8(num - MaxOf({1, den \div FloatScale}), den)
ClipU8High(num, den) ==
    IF den = 1 THEN ClipU8(num, den)
    ELSE ClipU8(num + den \div FloatScale, den)

\* padded[i:i+k, j:j+k] of the edge-padded plane
Window(g, k, pad, i, j) ==
    [a \in 1..k |-> [c \in 1..k |-> PadEdge(g, pad, i + a - 1, j + c - 1)]]
WindowSum(win, kernel) ==
    SumSeq([a \in 1..Len(kernel.w) |->
        SumSeq([c \in 1..Len(kernel.w) |-> win[a][c] * kernel.w[a][c]])])

Planes(b) == IF b.ch = 3 THEN {Channel(b, 1), Channel(b, 2), Channel(b, 3)} ELSE {b}

\* the windows of an image whose sum is so close to an integer that the cast
\* depends on the float rounding; equal windows give equal sums
FloatZone(b, kernel) ==
    LET k == Len(kernel.w)
        pad == k \div 2
        wins == {Window(g, k, pad, p[1], p[2]) : g \in Planes(b), p \in Pos(b)}
    IN  {win \in wins : ClipU8Low(WindowSum(win, kernel), kernel.den)
                            # ClipU8High(WindowSum(win, kernel), kernel.den)}

\* faulty variant: the sums accumulated into a copy of the image instead of zeros
convolve2d_single_channel_OnCopy(b, kernel, pad) ==
    LET k == Len(kernel.w)
    IN  Buf(b.h, b.w, 0, "float32",
            [i \in 1..b.h |-> [j \in 1..b.w |->
                b.px[i][j] * kernel.den
                + SumSeq([a \in 1..k |->
                    SumSeq([c \in 1..k |->
                        PadEdge(b, pad, i + a - 1, j + c - 1) * kernel.w[a][c]])])]])

\* convolve2d_single_channel(image, kernel, pad): the weighted window sums, as
\* numerators over kernel.den
convolve2d_single_channel(b, kernel, pad) ==
    LET k == Len(kernel.w)
    IN  Buf(b.h, b.w, 0, "float32",
            [i \in 1..b.h |-> [j \in 1..b.w |->
                SumSeq([a \in 1..k |->
                    SumSeq([c \in 1..k |->
                        PadEdge(b, pad, i + a - 1, j + c - 1) * kernel.w[a][c]])])]])

\* the roundings of one call: any of those windows may fall on the low side,
\* each on its own
Roundings(b, kernel) == SUBSET FloatZone(b, kernel)

\* a call is followed when at most MaxZone of its windows are such windows
Followed(b, kernel) == Cardinality(FloatZone(b, kernel)) <= MaxZone

\* np.clip(result, 0, 255).astype(np.uint8) of one float plane of window sums
ClipPlane(g, sums, kernel, lows) ==
    LET k == Len(kernel.w)
        pad == k \div 2
    IN  [i \in 1..g.h |-> [j \in 1..g.w |->
            IF Window(g, k, pad, i, j) \in lows
            THEN ClipU8Low(sums.px[i][j], kernel.den)
            ELSE ClipU8High(sums.px[i][j], kernel.den)] \o <<>>] \o <<>>

\* faulty variant: the multi-channel branch missing, the first plane alone is filtered
convolve2d_manual_OnePlane(b, kernel, lows) ==
    LET pad == Len(kernel.w) \div 2
        g == IF b.ch = 3 THEN Channel(b, 1) ELSE b
        p == convolve2d_single_channel(g, kernel, pad)
    IN  Buf(b.h, b.w, 0, "uint8", ClipPlane(g, p, kernel, lows))

\* convolve2d_manual(image, kernel); lows are the windows whose float sum falls
\* on the low side of the integer it is next to
convolve2d_manual(b, kernel, lows) ==
    LET pad == Len(kernel.w) \div 2
        Plane(g) == ClipPlane(g, convolve2d_single_channel(g, kernel, pad), kernel, lows)
    IN  IF b.ch = 3
        THEN LET p1 == Plane(Channel(b, 1))
                 p2 == Plane(Channel(b, 2))
                 p3 == Plane(Channel(b, 3))
             IN  Buf(b.h, b.w, 3, "uint8",
                     [i \in 1..b.h |-> [j \in 1..b.w |-> <<p1[i][j], p2[i][j], p3[i][j]>>]])
        ELSE Buf(b.h, b.w, 0, "uint8", Plane(b))

\* "if kernel_size % 2 == 0: kernel_size += 1"
OddSize(kernel_size) == IF kernel_size % 2 = 0 THEN kernel_size + 1 ELSE kernel_size

apply_average_filter(b, kernel_size, lows) ==
    convolve2d_manual(b, AverageKernel(OddSize(kernel_size)), lows)

apply_gaussian_filter(b, kernel_size, e, lows) ==
    convolve2d_manual(b, create_gaussian_kernel(OddSize(kernel_size), e), lows)

\* faulty variant: the plane padded with zeros instead of its edge samples
median_filter_2d_ZeroPad(g, kernel_size, pad) ==
    LET cells == (1..kernel_size) \X (1..kernel_size)
        half == (kernel_size * kernel_size + 1) \div 2
        At(i, j, c) ==
            LET r == i + c[1] - 1 - pad
                q == j + c[2] - 1 - pad
            IN  IF r \in 1..g.h /\ q \in 1..g.w THEN g.px[r][q] ELSE 0
        Med(i, j) ==
            CHOOSE v \in {At(i, j, c) : c \in cells} :
                /\ Cardinality({c \in cells : At(i, j, c) < v}) < half
                /\ Cardinality({c \in cells : At(i, j, c) <= v}) >= half
    IN  Buf(g.h, g.w, 0, g.dt, [i \in 1..g.h |-> [j \in 1..g.w |-> Med(i, j)]])

\* np.median of the k x k window at (i, j) of the padded plane, k * k odd: the
\* sample with fewer than half of the window below it and at least half not above
median_filter_2d(g, kernel_size, pad) ==
    LET cells == (1..kernel_size) \X (1..kernel_size)
        half == (kernel_size * kernel_size + 1) \div 2
        At(i, j, c) == PadEdge(g, pad, i + c[1] - 1, j + c[2] - 1)
        Med(i, j) ==
            CHOOSE v \in {At(i, j, c) : c \in cells} :
                /\ Cardinality({c \in cells : At(i, j, c) < v}) < half
                /\ Cardinality({c \in cells : At(i, j, c) <= v}) >= half
    IN  Buf(g.h, g.w, 0, g.dt, [i \in 1..g.h |-> [j \in 1..g.w |-> Med(i, j)]])

apply_median_filter(b, kernel_size) ==
    LET k == OddSize(kernel_size)
        pad == k \div 2
    IN  IF b.ch = 3
        THEN Stack3(median_filter_2d(Channel(b, 1), k, pad),
                    median_filter_2d(Channel(b, 2), k, pad),
                    median_filter_2d(Channel(b, 3), k, pad), b.dt)
        ELSE median_filter_2d(b, k, pad)

(***************************************************************************)
(* ops/filter_ops.py and MainWindow.apply_filter (src/main.py): the GUI's  *)
(* filters are OpenCV calls, which get the kernel size as it is passed.    *)
(***************************************************************************)
\* OpenCV's default border (BORDER_REFLECT_101), 1-based index into 1..n
RECURSIVE Reflect101(_, _)
Reflect101(p, n) ==
    IF n = 1 THEN 1
    ELSE IF p < 1 THEN Reflect101(2 - p, n)
    ELSE IF p > n THEN Reflect101(2 * n - p, n)
    ELSE p

\* saturate_cast<uchar> of num / den (den > 0): round to nearest, ties to even
RoundU8(num, den) ==
    LET q == num \div den
        r == num % den
        n == IF 2 * r > den THEN q + 1
             ELSE IF 2 * r < den THEN q
             ELSE q + (q % 2)
    IN  Clamp(n, 0, 255)

\* a k x k weighted window anchored at its centre cell k \div 2, reflected border
cv2_filter(b, kernel) ==
    LET k == Len(kernel.w)
        anchor == k \div 2
        One(g, i, j) ==
            RoundU8(SumSeq([a \in 1..k |->
                        SumSeq([c \in 1..k |->
                            g[Reflect101(i + a - 1 - anchor, b.h)]
                             [Reflect101(j + c - 1 - anchor, b.w)] * kernel.w[a][c]])]),
                    kernel.den)
        Plane(n) == [i \in 1..b.h |-> [j \in 1..b.w |-> b.px[i][j][n]]]
    IN  Buf(b.h, b.w, b.ch, "uint8",
            [i \in 1..b.h |-> [j \in 1..b.w |-> IF b.ch = 0 THEN One(b.px, i, j)
                          ELSE [n \in 1..3 |-> One(Plane(n), i, j)]]])

Ok(buf) == [status |-> "ok", alias |-> FALSE, buf |-> buf]
Raised == [status |-> "error"]
\* a filter's result with the side of the kernel that was applied
OkSized(buf, ksize) == [status |-> "ok", alias |-> FALSE, buf |-> buf, ksize |-> ksize]

\* cv2.blur(image, (ksize, ksize)): any ksize >= 1 is a box
ops_apply_average_filter(b, ksize) ==
    IF ksize < 1 THEN Raised ELSE Ok(cv2_filter(b, AverageKernel(ksize)))

\* cv2.GaussianBlur(image, (ksize, ksize), sigma): an even ksize is rejected
ops_apply_gaussian_filter(b, ksize, e) ==
    IF ksize < 1 \/ ksize % 2 = 0 THEN Raised
    ELSE Ok(cv2_filter(b, create_gaussian_kernel(ksize, e)))

\* cv2.medianBlur(image, ksize): an even ksize is rejected; replicated border
ops_apply_median_filter(b, ksize) ==
    IF ksize < 1 \/ ksize % 2 = 0 THEN Raised
    ELSE Ok(IF b.ch = 3
            THEN Stack3(median_filter_2d(Channel(b, 1), ksize, ksize \div 2),
                        median_filter_2d(Channel(b, 2), ksize, ksize \div 2),
                        median_filter_2d(Channel(b, 3), ksize, ksize \div 2), b.dt)
            ELSE median_filter_2d(b, ksize, ksize \div 2))

\* MainWindow._odd_ksize(value)
_odd_ksize(value) == IF value % 2 = 0 THEN value + 1 ELSE value

\* the filtered image MainWindow.apply_filter computes from its source
MainWindow_apply_filter(source, filter_type, value, e) ==
    LET ksize == _odd_ksize(value)
    IN  IF filter_type = "Average" THEN ops_apply_average_filter(source, ksize)
        ELSE IF filter_type = "Gaussian" THEN ops_apply_gaussian_filter(source, ksize, e)
        ELSE ops_apply_median_filter(source, ksize)

(***************************************************************************)
(* frequency.py.  The transform is modelled for axis lengths 1 and 2,      *)
(* where every twiddle factor is +1 or -1 and the spectrum is an exact     *)
(* integer array; the inverse transform is kept as numerators over         *)
(* rows * cols.                                                            *)
(***************************************************************************)
FftLens == {1, 2}
CutoffVals == {0, 1, 2}
FilterModes == {"low", "high", "band"}

\* exp(-2 pi i u r / n) for n in FftLens, u and r 0-based
Twiddle(u, r) == IF (u * r) % 2 = 0 THEN 1 ELSE -1

\* fftpack.fft2(gray)[u][v], 0-based u, v
fft2(g, u, v) ==
    SumSeq([r \in 1..g.h |->
        SumSeq([c \in 1..g.w |->
            g.px[r][c] * Twiddle(u, r - 1) * Twiddle(v, c - 1)])])

\* fftshift / ifftshift move index i of the shifted array to (i - n // 2) mod n;
\* for n in FftLens the two shifts coincide
Unshift(i, n) == (i - n \div 2) % n

\* the mask at shifted cell (y, x), 0-based: distance <= cutoff for 'low' and
\* distance > cutoff for every other filter_type
InsideCutoff(y, x, rows, cols, cutoff) ==
    /\ cutoff >= 0
    /\ (x - cols \div 2) * (x - cols \div 2) + (y - rows \div 2) * (y - rows \div 2)
           <= cutoff * cutoff
\* distance > cutoff
OutsideCutoff(y, x, rows, cols, cutoff) ==
    \/ cutoff < 0
    \/ (x - cols \div 2) * (x - cols \div 2) + (y - rows \div 2) * (y - rows \div 2)
           > cutoff * cutoff
Mask(filter_type, y, x, rows, cols, cutoff) ==
    IF filter_type = "low" THEN InsideCutoff(y, x, rows, cols, cutoff)
    ELSE OutsideCutoff(y, x, rows, cols, cutoff)

\* rows * cols * np.abs(ifft2(ifftshift(fshift * mask)))[r][c], 0-based r, c
FilteredAbs(g, filter_type, cutoff, r, c) ==
    Abs(SumSeq([y \in 1..g.h |->
            SumSeq([x \in 1..g.w |->
                IF Mask(filter_type, y - 1, x - 1, g.h, g.w, cutoff)
                THEN fft2(g, Unshift(y - 1, g.h), Unshift(x - 1, g.w))
                     * Twiddle(Unshift(y - 1, g.h), r) * Twiddle(Unshift(x - 1, g.w), c)
                ELSE 0])]))

\* frequency_filter(image, filter_type, cutoff): the min-max rescale has no
\* guard, so a constant inverse transform gives (x - min) / 0
frequency_filter(b, filter_type, cutoff, ub) ==
    LET g == ToGray(b)
        f == [r \in 1..g.h |-> [c \in 1..g.w |->
                 FilteredAbs(g, filter_type, cutoff, r - 1, c - 1)]]
        all == {f[p[1]][p[2]] : p \in Pos(g)}
        mx == MaxOf(all)
        mn == MinOf(all)
    IN  [status |-> "ok", alias |-> FALSE,
         nan |-> (mx = mn),
         buf |-> Buf(g.h, g.w, 0, "uint8",
                     [i \in 1..g.h |-> [j \in 1..g.w |-> IF mx = mn THEN ub.nan
                                   ELSE CastU8((f[i][j] - mn) * 255, mx - mn, ub)]])]

\* apply_frequency_filter(image, filter_type, cutoff): the same filter; the
\* spectrum picture it adds is not part of the numeric result
apply_frequency_filter(b, filter_type, cutoff, ub) ==
    frequency_filter(b, filter_type, cutoff, ub)

(***************************************************************************)
(* hybrid.py.  The transform is modelled for axis lengths 1, 2 and 4,      *)
(* where every twiddle factor is 1, -1, i or -i: the float32 spectrum is   *)
(* an exact array of complex integers <<re, im>>, and the components       *)
(* returned by get_low_frequencies / get_high_frequencies are kept as      *)
(* numerators over rows * cols.                                            *)
(***************************************************************************)
HybridLens == {1, 2, 4}

\* the angle 2 pi k / n in quarter turns, n in HybridLens
Quarter(k, n) == (k * (4 \div n)) % 4
Cos4(q) == IF q % 4 = 0 THEN 1 ELSE IF q % 4 = 2 THEN -1 ELSE 0
Sin4(q) == IF q % 4 = 1 THEN 1 ELSE IF q % 4 = 3 THEN -1 ELSE 0

\* fftpack.fft2(image.astype(np.float32)), indexed [u + 1][v + 1]
Spectrum(g) ==
    [u1 \in 1..g.h |-> [v1 \in 1..g.w |->
        LET Q(r, c) == Quarter((u1 - 1) * (r - 1), g.h) + Quarter((v1 - 1) * (c - 1), g.w)
        IN  <<SumSeq([r \in 1..g.h |->
                  SumSeq([c \in 1..g.w |-> g.px[r][c] * Cos4(Q(r, c))])]),
              -SumSeq([r \in 1..g.h |->
                  SumSeq([c \in 1..g.w |-> g.px[r][c] * Sin4(Q(r, c))])])>>]]

\* fftpack.fftshift(f), indexed [y + 1][x + 1]
Shifted(f, rows, cols) ==
    [y1 \in 1..rows |-> [x1 \in 1..cols |->
        f[Unshift(y1 - 1, rows) + 1][Unshift(x1 - 1, cols) + 1]]]

\* the absolute value of re + i im; the inverse transforms taken here are real
\* (im = 0), the other case is the floor of the root
AbsComplex(re, im) ==
    IF im = 0 THEN Abs(re)
    ELSE CHOOSE n \in 0..(Abs(re) + Abs(im)) :
             n * n <= re * re + im * im /\ (n + 1) * (n + 1) > re * re + im * im

\* rows * cols * np.abs(ifft2(ifftshift(fshift_filtered))), fshift_filtered the
\* shifted spectrum with the cells outside the mask set to 0
InverseAbs(filtered, rows, cols) ==
    [r1 \in 1..rows |-> [c1 \in 1..cols |->
        LET Q(y1, x1) == Quarter(Unshift(y1 - 1, rows) * (r1 - 1), rows)
                         + Quarter(Unshift(x1 - 1, cols) * (c1 - 1), cols)
            Re(y1, x1) == filtered[y1][x1][1] * Cos4(Q(y1, x1))
                          - filtered[y1][x1][2] * Sin4(Q(y1, x1))
            Im(y1, x1) == filtered[y1][x1][1] * Sin4(Q(y1, x1))
                          + filtered[y1][x1][2] * Cos4(Q(y1, x1))
        IN  AbsComplex(SumSeq([y1 \in 1..rows |-> SumSeq([x1 \in 1..cols |-> Re(y1, x1)])]),
                       SumSeq([y1 \in 1..rows |-> SumSeq([x1 \in 1..cols |-> Im(y1, x1)])]))]]

\* faulty variant: the low-pass mask made strict (distance < cutoff)
LowMask_Strict(rows, cols, cutoff) ==
    [y1 \in 1..rows |-> [x1 \in 1..cols |->
        /\ cutoff > 0
        /\ (x1 - 1 - cols \div 2) * (x1 - 1 - cols \div 2)
               + (y1 - 1 - rows \div 2) * (y1 - 1 - rows \div 2) < cutoff * cutoff]]

\* mask = distance <= cutoff   (get_low_frequencies)
LowMask(rows, cols, cutoff) ==
    [y1 \in 1..rows |-> [x1 \in 1..cols |->
        InsideCutoff(y1 - 1, x1 - 1, rows, cols, cutoff)]]

\* mask = distance > cutoff   (get_high_frequencies)
HighMask(rows, cols, cutoff) ==
    [y1 \in 1..rows |-> [x1 \in 1..cols |->
        OutsideCutoff(y1 - 1, x1 - 1, rows, cols, cutoff)]]

\* fshift * mask
ApplyMask(fshift, mask, rows, cols) ==
    [y1 \in 1..rows |-> [x1 \in 1..cols |->
        IF mask[y1][x1] THEN fshift[y1][x1] ELSE <<0, 0>>]]

\* get_low_frequencies(image, cutoff): the float component, as numerators den
\* apart, with the mask and the masked spectrum it went through
get_low_frequencies(g, cutoff) ==
    LET fshift == Shifted(Spectrum(g), g.h, g.w)
        mask == LowMask(g.h, g.w, cutoff)
        filtered == ApplyMask(fshift, mask, g.h, g.w)
    IN  [h |-> g.h, w |-> g.w, den |-> g.h * g.w,
         fshift |-> fshift, mask |-> mask, filtered |-> filtered,
         num |-> InverseAbs(filtered, g.h, g.w)]

get_high_frequencies(g, cutoff) ==
    LET fshift == Shifted(Spectrum(g), g.h, g.w)
        mask == HighMask(g.h, g.w, cutoff)
        filtered == ApplyMask(fshift, mask, g.h, g.w)
    IN  [h |-> g.h, w |-> g.w, den |-> g.h * g.w,
         fshift |-> fshift, mask |-> mask, filtered |-> filtered,
         num |-> InverseAbs(filtered, g.h, g.w)]

\* the source cell and second-cell weight (of 2048) that cv2.resize's bilinear
\* interpolation uses for destination index d (0-based), n source and m
\* destination cells: f = (d + 0.5) * n / m - 0.5, s = floor(f), clamped to the
\* source, the weight the fraction of f rounded to 1/2048
ResizeCoef(d, n, m) ==
    LET num == (2 * d + 1) * n - m
        s == num \div (2 * m)
        frac == num % (2 * m)
    IN  IF s < 0 THEN [s |-> 0, a1 |-> 0]
        ELSE IF s >= n - 1 THEN [s |-> n - 1, a1 |-> 0]
        ELSE [s |-> s, a1 |-> (frac * 2048 + m) \div (2 * m)]

\* the rows a destination row blends and the second row's weight: the fraction
\* is kept and the row indices are clipped to the source
ResizeRows(d, n, m) ==
    LET num == (2 * d + 1) * n - m
        s == num \div (2 * m)
        frac == num % (2 * m)
    IN  [s0 |-> Clamp(s, 0, n - 1), s1 |-> Clamp(s + 1, 0, n - 1),
         b1 |-> (frac * 2048 + m) \div (2 * m)]

\* cv2.resize(img, (width, height)) of a 2-D uint8 array, INTER_LINEAR in
\* OpenCV's fixed-point arithmetic: a horizontal pass with 11-bit weights, then
\* the vertical pass ((b0 * (S0 >> 4)) >> 16) + ((b1 * (S1 >> 4)) >> 16) + 2) >> 2
cv2_resize(g, width, height) ==
    LET HPass(r, j) ==
            LET c == ResizeCoef(j - 1, g.w, width)
            IN  g.px[r][c.s + 1] * (2048 - c.a1)
                + (IF c.a1 = 0 THEN 0 ELSE g.px[r][c.s + 2] * c.a1)
        VPass(i, j) ==
            LET rr == ResizeRows(i - 1, g.h, height)
            IN  ((((2048 - rr.b1) * (HPass(rr.s0 + 1, j) \div 16)) \div 65536)
                 + ((rr.b1 * (HPass(rr.s1 + 1, j) \div 16)) \div 65536) + 2) \div 4
    IN  Buf(height, width, 0, "uint8",
            [i \in 1..height |-> [j \in 1..width |-> VPass(i, j)]])

\* cv2.addWeighted(low_freq, 0.5, high_freq, 0.5, 0) on two float arrays: the
\* float sum, no clamp (numerators over 2 * den); arrays of different sizes
\* are an error
cv2_addWeighted(low, high) ==
    IF <<low.h, low.w>> # <<high.h, high.w>> THEN [ok |-> FALSE]
    ELSE [ok |-> TRUE, den |-> 2 * low.den,
          num |-> [i \in 1..low.h |-> [j \in 1..low.w |->
                     low.num[i][j] + high.num[i][j]]]]

\* (x - x.min()) / (x.max() - x.min()) * 255, then .astype(np.uint8); no guard
\* on max = min
DisplayU8(comp, ub) ==
    LET all == {comp.num[i][j] : i \in 1..comp.h, j \in 1..comp.w}
        mx == MaxOf(all)
        mn == MinOf(all)
    IN  [nan |-> (mx = mn),
         buf |-> Buf(comp.h, comp.w, 0, "uint8",
                     [i \in 1..comp.h |-> [j \in 1..comp.w |->
                        IF mx = mn THEN ub.nan
                        ELSE CastU8((comp.num[i][j] - mn) * 255, mx - mn, ub)]])]

\* faulty variant: image2 left at its own size
ResizeToFirst_Keep(img1_gray, img2_gray) == img2_gray

\* if img1_gray.shape != img2_gray.shape: img2_gray = cv2.resize(...)
ResizeToFirst(img1_gray, img2_gray) ==
    IF <<img1_gray.h, img1_gray.w>> # <<img2_gray.h, img2_gray.w>>
    THEN cv2_resize(img2_gray, img1_gray.w, img1_gray.h)
    ELSE img2_gray

\* create_hybrid_image(image1, image2, cutoff_low, cutoff_high)
create_hybrid_image(image1, image2, cutoff_low, cutoff_high, ub) ==
    LET img1_gray == ToGray(image1)
        img2_gray == ResizeToFirst(img1_gray, ToGray(image2))
        low_freq == get_low_frequencies(img1_gray, cutoff_low)
        high_freq == get_high_frequencies(img2_gray, cutoff_high)
        hybrid == cv2_addWeighted(low_freq, high_freq)
        low_display == DisplayU8(low_freq, ub)
        high_display == DisplayU8(high_freq, ub)
    IN  IF ~hybrid.ok THEN [status |-> "error"]
        ELSE [status |-> "ok", alias |-> FALSE,
              hybrid |-> Buf(low_freq.h, low_freq.w, 0, "uint8",
                             [i \in 1..low_freq.h |-> [j \in 1..low_freq.w |->
                                CastU8(hybrid.num[i][j], hybrid.den, ub)]]),
              low_freq |-> low_display.buf,
              high_freq |-> high_display.buf,
              low |-> low_freq, high |-> high_freq,
              nan |-> {n \in {"low_freq", "high_freq"} :
                          \/ n = "low_freq" /\ low_display.nan
                          \/ n = "high_freq" /\ high_display.nan},
              oor |-> \E i \in 1..low_freq.h, j \in 1..low_freq.w :
                         OutOfU8(hybrid.num[i][j], hybrid.den)]

(***************************************************************************)
(* main.py: the desktop GUI.  An image held by the window is followed as    *)
(* the file it was read from and the operations applied since, [file,       *)
(* steps, ch]; ch = 0 for a 2-D array and 3 for a BGR one.                  *)
(***************************************************************************)
NoImage == [file |-> "", steps |-> <<>>, ch |-> 0]     \* Python's None

Derived(x, step, ch) == [file |-> x.file, steps |-> Append(x.steps, step), ch |-> ch]

\* ops/io_ops.py
read_image_bgr(path) == [file |-> path, steps |-> <<>>, ch |-> 3]
to_gray(image_bgr) == Derived(image_bgr, "to_gray", 0)

\* MainWindow.__init__: nothing cached, every panel empty
MainWindow_init ==
    [original_bgr |-> NoImage, gray |-> NoImage, noisy |-> NoImage, filtered |-> NoImage,
     panel_original |-> NoImage, panel_gray |-> NoImage,
     panel_noise_in |-> NoImage, panel_noisy |-> NoImage,
     panel_filter_in |-> NoImage, panel_filtered |-> NoImage,
     panel_edge_in |-> NoImage, panel_edge_x |-> NoImage,
     panel_edge_y |-> NoImage, panel_edge_mag |-> NoImage,
     filter_source_status |-> "Noisy image: not available"]

\* MainWindow.open_image with the path the file dialog returned ("" when it
\* was cancelled); readable is whether cv2.imread decodes the file.  When it
\* does not, read_image_bgr raises before anything is assigned.
open_image(win, path, readable) ==
    IF path = "" \/ ~readable THEN win
    ELSE LET original_bgr == read_image_bgr(path)
             gray == to_gray(original_bgr)
         IN  [win EXCEPT !.original_bgr = original_bgr,
                         !.gray = gray,
                         !.noisy = NoImage,
                         !.filtered = NoImage,
                         !.panel_original = original_bgr,
                         !.panel_gray = gray,
                         !.panel_noise_in = original_bgr,
                         !.panel_filter_in = original_bgr,
                         !.panel_edge_in = gray,
                         !.filter_source_status = "Noisy image: not available"]

\* MainWindow._get_save_source
_get_save_source(win, choice) ==
    IF choice = "Gray (original)" THEN win.gray
    ELSE IF choice = "Original (RGB)" THEN win.original_bgr
    ELSE IF choice = "Noisy" THEN win.noisy
    ELSE IF choice = "Filtered" THEN win.filtered
    ELSE IF choice = "Edges (Magnitude)" THEN win.panel_edge_mag
    ELSE IF choice = "Edges (X)" THEN win.panel_edge_x
    ELSE IF choice = "Edges (Y)" THEN win.panel_edge_y
    ELSE NoImage

\* MainWindow.save_edited: what the user is told or what cv2.imwrite is given
save_edited(win, choice, path) ==
    LET selected == _get_save_source(win, choice)
    IN  IF selected = NoImage THEN [status |-> "not available"]
        ELSE IF path = "" THEN [status |-> "cancelled"]
        ELSE [status |-> "written", path |-> path,
              to_save |-> IF choice \in {"Noisy", "Filtered"} THEN selected
                          ELSE IF selected.ch = 0 THEN selected
                          ELSE to_gray(selected)]

\* MainWindow.apply_noise
apply_noise(win, noise_type) ==
    IF win.original_bgr = NoImage THEN win
    ELSE LET noisy == Derived(win.original_bgr,
                              IF noise_type = "Uniform" THEN "add_uniform_noise"
                              ELSE IF noise_type = "Gaussian" THEN "add_gaussian_noise"
                              ELSE "add_salt_pepper_noise", 3)
         IN  [win EXCEPT !.noisy = noisy,
                         !.panel_noisy = noisy,
                         !.filter_source_status = "Noisy image: available"]

\* MainWindow.apply_filter
apply_filter(win, filter_source, filter_type) ==
    IF win.original_bgr = NoImage THEN win
    ELSE LET source == IF filter_source = "Noisy (if available)" /\ win.noisy # NoImage
                       THEN win.noisy ELSE win.original_bgr
             filtered == Derived(source,
                                 IF filter_type = "Average" THEN "apply_average_filter"
                                 ELSE IF filter_type = "Gaussian" THEN "apply_gaussian_filter"
                                 ELSE "apply_median_filter", 3)
         IN  [win EXCEPT !.filtered = filtered, !.panel_filtered = filtered]

\* MainWindow.apply_edges
apply_edges(win, edge_type) ==
    IF win.original_bgr = NoImage THEN win
    ELSE LET source == IF win.filtered # NoImage THEN win.filtered ELSE win.original_bgr
             gray == to_gray(source)
         IN  IF edge_type = "Canny"
             THEN [win EXCEPT !.panel_edge_in = gray,
                              !.panel_edge_x = NoImage,
                              !.panel_edge_y = NoImage,
                              !.panel_edge_mag = Derived(gray, "edge_canny", 0)]
             ELSE LET out == IF edge_type = "Sobel"
                                THEN [gx |-> "edge_sobel.gx", gy |-> "edge_sobel.gy",
                                      mag |-> "edge_sobel.mag"]
                             ELSE IF edge_type = "Roberts"
                                THEN [gx |-> "edge_roberts.gx", gy |-> "edge_roberts.gy",
                                      mag |-> "edge_roberts.mag"]
                             ELSE [gx |-> "edge_prewitt.gx", gy |-> "edge_prewitt.gy",
                                   mag |-> "edge_prewitt.mag"]
                  IN  [win EXCEPT !.panel_edge_in = gray,
                                  !.panel_edge_x = Derived(gray, out.gx, 0),
                                  !.panel_edge_y = Derived(gray, out.gy, 0),
                                  !.panel_edge_mag = Derived(gray, out.mag, 0)]

(***************************************************************************)
(* Initial states and the library calls as actions.  The library is        *)
(* stateless: a behaviour is one call on one input, followed by what the   *)
(* caller does with the result.                                            *)
(***************************************************************************)
NoCall == [op |-> "none"]
NoResult == [status |-> "none"]
NoSessions == [s \in {} |-> NoResult]
Fresh == call = NoCall

Init ==
    /\ image \in Images
    /\ given = image
    /\ call = NoCall
    /\ result = NoResult
    /\ writes = 0
    /\ image_states = NoSessions
    /\ before = NoSessions
    /\ uploaded = NoSessions
    /\ window = MainWindow_init

SobelEdge ==
    /\ Fresh
    /\ \E ub \in EdgeOutcomes(image, SobelKx, SobelKy, 1) :
        /\ call' = [op |-> "sobel_edge"]
        /\ result' = sobel_edge(image, ub)
        /\ UNCHANGED <<image, given, writes, server>>

PrewittEdge ==
    /\ Fresh
    /\ \E ub \in EdgeOutcomes(image, PrewittKx, PrewittKy, 1) :
        /\ call' = [op |-> "prewitt_edge"]
        /\ result' = prewitt_edge(image, ub)
        /\ UNCHANGED <<image, given, writes, server>>

RobertsEdge ==
    /\ Fresh
    /\ \E ub \in EdgeOutcomes(image, RobertsKx, RobertsKy, 0) :
        /\ call' = [op |-> "roberts_edge"]
        /\ result' = roberts_edge(image, ub)
        /\ UNCHANGED <<image, given, writes, server>>

EdgeNext == SobelEdge \/ PrewittEdge \/ RobertsEdge

EdgeSpec == Init /\ [][EdgeNext]_vars

AddNoiseGaussian ==
    /\ Fresh
    /\ \E mean \in MeanVals, sigma \in SigmaVals, z \in SampleFieldsOver(image, ZVals) :
        /\ call' = [op |-> "add_noise", noise_type |-> "gaussian",
                    mean |-> mean, sigma |-> sigma, z |-> z]
        /\ result' = add_noise(image, "gaussian", [mean |-> mean, sigma |-> sigma, z |-> z])
        /\ UNCHANGED <<image, given, writes, server>>

AddNoiseUniform ==
    /\ Fresh
    /\ \E low \in {-25, 0}, t \in SampleFieldsOver(image, {0, 1}) :
        /\ call' = [op |-> "add_noise", noise_type |-> "uniform",
                    low |-> low, high |-> 25, t |-> t]
        /\ result' = add_noise(image, "uniform", [low |-> low, high |-> 25, t |-> t])
        /\ UNCHANGED <<image, given, writes, server>>

AddNoiseSaltPepper ==
    /\ Fresh
    /\ \E ratio \in RatioVals, split \in SplitVals, draws \in FieldsOver(image, DrawVals) :
       \E tie \in SaltPepperTies(image, ratio, split, draws) :
        /\ call' = [op |-> "add_noise", noise_type |-> "salt_pepper",
                    ratio |-> ratio, split |-> split, draws |-> draws, tie |-> tie]
        /\ result' = add_noise(image, "salt_pepper",
                               [ratio |-> ratio, split |-> split, draws |-> draws,
                                tie |-> tie])
        /\ UNCHANGED <<image, given, writes, server>>

AddNoiseUnknown ==
    /\ Fresh
    /\ \E t \in NoiseTypes \ {"gaussian", "uniform", "salt_pepper"} :
        /\ call' = [op |-> "add_noise", noise_type |-> t]
        /\ result' = add_noise(image, t, [none |-> 0])
        /\ UNCHANGED <<image, given, writes, server>>

OpsSaltPepper ==
    /\ Fresh
    /\ \E amount \in RatioVals, split \in SplitVals, draws \in FieldsOver(image, DrawVals) :
        /\ call' = [op |-> "add_salt_pepper_noise",
                    ratio |-> amount, split |-> split, draws |-> draws]
        /\ result' = add_salt_pepper_noise(image, amount, split, draws)
        /\ UNCHANGED <<image, given, writes, server>>

\* the GUI's Gaussian noise; its sigma spin box offers 1.0 .. 100.0
OpsGaussian ==
    /\ Fresh
    /\ \E mean \in MeanVals, sigma \in {v \in SigmaVals : v >= 0},
          z \in SampleFieldsOver(image, ZVals) :
        /\ call' = [op |-> "add_gaussian_noise", mean |-> mean, sigma |-> sigma, z |-> z]
        /\ result' = add_gaussian_noise(image, mean, sigma, z)
        /\ UNCHANGED <<image, given, writes, server>>

NoiseNext ==
    \/ AddNoiseGaussian
    \/ OpsGaussian
    \/ AddNoiseUniform
    \/ AddNoiseSaltPepper
    \/ AddNoiseUnknown
    \/ OpsSaltPepper

NoiseSpec == Init /\ [][NoiseNext]_vars

\* kernels handed to convolve2d_manual directly
CustomKernels ==
    UNION {{[w |-> [a \in 1..k |-> [c \in 1..k |-> 0]], den |-> 1],
            [w |-> [a \in 1..k |-> [c \in 1..k |-> IF a = c THEN 1 ELSE 0]], den |-> 1],
            [w |-> [a \in 1..k |-> [c \in 1..k |-> IF a = 1 THEN -1 ELSE 0]], den |-> 1]} :
           k \in {n \in 1..MaxK : n % 2 = 1}}

Convolve ==
    /\ Fresh
    /\ \E kernel \in CustomKernels :
       \E lows \in Roundings(image, kernel) :
        /\ call' = [op |-> "convolve2d_manual", kernel |-> kernel, lows |-> lows]
        /\ result' = Ok(convolve2d_manual(image, kernel, lows))
        /\ UNCHANGED <<image, given, writes, server>>

ApplyAverageFilter ==
    /\ Fresh
    /\ \E k \in {n \in 1..MaxK : Followed(image, AverageKernel(OddSize(n)))} :
       \E lows \in Roundings(image, AverageKernel(OddSize(k))) :
        /\ call' = [op |-> "apply_average_filter", kernel_size |-> k, lows |-> lows]
        /\ result' = OkSized(apply_average_filter(image, k, lows), OddSize(k))
        /\ UNCHANGED <<image, given, writes, server>>

ApplyGaussianFilter ==
    /\ Fresh
    /\ \E ke \in {x \in (1..MaxK) \X GaussExps :
                    Followed(image, create_gaussian_kernel(OddSize(x[1]), x[2]))} :
       \E lows \in Roundings(image, create_gaussian_kernel(OddSize(ke[1]), ke[2])) :
        /\ call' = [op |-> "apply_gaussian_filter", kernel_size |-> ke[1], e |-> ke[2],
                    lows |-> lows]
        /\ result' = OkSized(apply_gaussian_filter(image, ke[1], ke[2], lows),
                             OddSize(ke[1]))
        /\ UNCHANGED <<image, given, writes, server>>

ApplyMedianFilter ==
    /\ Fresh
    /\ \E k \in 1..MaxK :
        /\ call' = [op |-> "apply_median_filter", kernel_size |-> k]
        /\ result' = OkSized(apply_median_filter(image, k), OddSize(k))
        /\ UNCHANGED <<image, given, writes, server>>

\* MainWindow.apply_filter on the loaded image (cv2.imread(path, IMREAD_COLOR)
\* always yields 3 channels)
GuiApplyFilter ==
    /\ Fresh
    /\ image.ch = 3
    /\ \E t \in {"Average", "Gaussian", "Median"}, value \in 1..MaxK, e \in GaussExps :
        /\ call' = [op |-> "MainWindow.apply_filter", filter_type |-> t,
                    kernel_size |-> value, e |-> e]
        /\ result' = MainWindow_apply_filter(image, t, value, e)
        /\ UNCHANGED <<image, given, writes, server>>

\* ops.filter_ops.apply_average_filter(image, ksize), called with the size as
\* requested
OpsApplyAverageFilter ==
    /\ Fresh
    /\ \E k \in 1..MaxK :
        /\ call' = [op |-> "ops.apply_average_filter", kernel_size |-> k]
        /\ result' = ops_apply_average_filter(image, k)
        /\ UNCHANGED <<image, given, writes, server>>

\* ops.filter_ops.apply_gaussian_filter(image, ksize, sigma)
OpsApplyGaussianFilter ==
    /\ Fresh
    /\ \E k \in 1..MaxK, e \in GaussExps :
        /\ call' = [op |-> "ops.apply_gaussian_filter", kernel_size |-> k, e |-> e]
        /\ result' = ops_apply_gaussian_filter(image, k, e)
        /\ UNCHANGED <<image, given, writes, server>>

\* ops.filter_ops.apply_median_filter(image, ksize)
OpsApplyMedianFilter ==
    /\ Fresh
    /\ \E k \in 1..MaxK :
        /\ call' = [op |-> "ops.apply_median_filter", kernel_size |-> k]
        /\ result' = ops_apply_median_filter(image, k)
        /\ UNCHANGED <<image, given, writes, server>>

FilterNext ==
    \/ Convolve
    \/ ApplyAverageFilter
    \/ ApplyGaussianFilter
    \/ ApplyMedianFilter
    \/ OpsApplyAverageFilter
    \/ OpsApplyGaussianFilter
    \/ OpsApplyMedianFilter
    \/ GuiApplyFilter

FilterSpec == Init /\ [][FilterNext]_vars

(***************************************************************************)
(* enhancement.py histogram_equalization, through OpenCV: cv2.equalizeHist *)
(* and the fixed-point BGR <-> YUV conversions (14-bit coefficients).      *)
(***************************************************************************)
\* CV_DESCALE(x, 14)
Descale14(x) == (x + 8192) \div 16384

\* cv2.cvtColor(image, cv2.COLOR_BGR2YUV) of one pixel <<b, g, r>>
BGR2YUV(p) ==
    LET Y == Clamp(Descale14(p[1] * 1868 + p[2] * 9617 + p[3] * 4899), 0, 255)
    IN  <<Y,
          Clamp(Descale14((p[1] - Y) * 8061 + 128 * 16384), 0, 255),
          Clamp(Descale14((p[3] - Y) * 14369 + 128 * 16384), 0, 255)>>

\* cv2.cvtColor(yuv, cv2.COLOR_YUV2BGR) of one pixel <<y, u, v>>
YUV2BGR(p) ==
    <<Clamp(p[1] + Descale14((p[2] - 128) * 33292), 0, 255),
      Clamp(p[1] + Descale14((p[2] - 128) * (-6472) + (p[3] - 128) * (-9519)), 0, 255),
      Clamp(p[1] + Descale14((p[3] - 128) * 18678), 0, 255)>>

\* cv2.equalizeHist(plane): the lowest occupied level maps to 0, a level v above
\* it to round(255 * (pixels in (lowest, v]) / (total - pixels at lowest)); a
\* one-level plane is returned as it is
equalizeHist(g) ==
    LET lowest == MinOf(Samples(g))
        AtLowest == Cardinality({p \in Pos(g) : g.px[p[1]][p[2]] = lowest})
        UpTo(v) == Cardinality({p \in Pos(g) :
                        g.px[p[1]][p[2]] > lowest /\ g.px[p[1]][p[2]] <= v})
        total == g.h * g.w
    IN  IF AtLowest = total THEN g
        ELSE Buf(g.h, g.w, 0, "uint8",
                 [i \in 1..g.h |-> [j \in 1..g.w |->
                    RoundU8(255 * UpTo(g.px[i][j]), total - AtLowest)]])

\* histogram_equalization(image): the Y plane of a 3-channel image, or the
\* 2-D image itself
histogram_equalization(b) ==
    IF b.ch = 0 THEN equalizeHist(b)
    ELSE LET yuv == [i \in 1..b.h |-> [j \in 1..b.w |-> BGR2YUV(b.px[i][j])]]
             y == equalizeHist(Buf(b.h, b.w, 0, "uint8",
                                   [i \in 1..b.h |-> [j \in 1..b.w |-> yuv[i][j][1]]]))
         IN  Buf(b.h, b.w, 3, "uint8",
                 [i \in 1..b.h |-> [j \in 1..b.w |->
                    YUV2BGR(<<y.px[i][j], yuv[i][j][2], yuv[i][j][3]>>)]])


Normalize ==
    /\ Fresh
    /\ \E range_type \in RangeTypes, ub \in UBOutcomes :
        /\ call' = [op |-> "normalize_image", range_type |-> range_type]
        /\ result' = normalize_image(image, range_type, ub)
        /\ UNCHANGED <<image, given, writes, server>>

RgbToGrayscale ==
    /\ Fresh
    /\ \E low \in SUBSET GrayZone(image) :
        /\ call' = [op |-> "rgb_to_grayscale"]
        /\ result' = rgb_to_grayscale(image, low)
        /\ UNCHANGED <<image, given, writes, server>>

HistogramEqualization ==
    /\ Fresh
    /\ call' = [op |-> "histogram_equalization"]
    /\ result' = Ok(histogram_equalization(image))
    /\ UNCHANGED <<image, given, writes, server>>

EnhanceNext == Normalize \/ RgbToGrayscale \/ HistogramEqualization

EnhanceSpec == Init /\ [][EnhanceNext]_vars

FrequencyFilter ==
    /\ Fresh
    /\ image.h \in FftLens /\ image.w \in FftLens
    /\ \E filter_type \in FilterModes, cutoff \in CutoffVals, ub \in UBOutcomes :
        /\ call' = [op |-> "frequency_filter", filter_type |-> filter_type,
                    cutoff |-> cutoff]
        /\ result' = frequency_filter(image, filter_type, cutoff, ub)
        /\ UNCHANGED <<image, given, writes, server>>

ApplyFrequencyFilter ==
    /\ Fresh
    /\ image.h \in FftLens /\ image.w \in FftLens
    /\ \E filter_type \in FilterModes, cutoff \in CutoffVals, ub \in UBOutcomes :
        /\ call' = [op |-> "apply_frequency_filter", filter_type |-> filter_type,
                    cutoff |-> cutoff]
        /\ result' = apply_frequency_filter(image, filter_type, cutoff, ub)
        /\ UNCHANGED <<image, given, writes, server>>

FrequencyNext == FrequencyFilter \/ ApplyFrequencyFilter

FrequencySpec == Init /\ [][FrequencyNext]_vars

(***************************************************************************)
(* The frequency-domain operations on images whose sides the transform is  *)
(* modelled for.  create_hybrid_image takes a second image, of any of the  *)
(* same shapes and either layout.                                          *)
(***************************************************************************)
HybridShapes == {<<1, 1>>, <<2, 2>>, <<2, 4>>, <<4, 1>>}
HybridVals == {0, 255}
HybridColors == {<<0, 0, 0>>, <<30, 200, 90>>}

\* a checkerboard whose last corner takes the other value
CheckerCorner(h, w, V) ==
    {Buf(h, w, 0, "uint8",
         [i \in 1..h |-> [j \in 1..w |->
            IF (i + j) % 2 = 0 /\ ~(i = h /\ j = w) THEN a ELSE b]]) : a \in V, b \in V}

\* one corner pixel against a flat background
CornerPatterns(h, w, ch, V) ==
    {Buf(h, w, ch, "uint8",
         [i \in 1..h |-> [j \in 1..w |-> IF i = h /\ j = w THEN a ELSE b]]) :
        a \in V, b \in V}

HybridImages ==
    UNION {PatternsOver(s[1], s[2], 0, HybridVals)
           \cup CheckerCorner(s[1], s[2], HybridVals)
           \cup PatternsOver(s[1], s[2], 3, HybridColors) : s \in HybridShapes}

SecondImages ==
    UNION {CornerPatterns(s[1], s[2], 0, HybridVals)
           \cup CornerPatterns(s[1], s[2], 3, HybridColors) : s \in HybridShapes}

HybridInit ==
    /\ image \in HybridImages
    /\ given = image
    /\ call = NoCall
    /\ result = NoResult
    /\ writes = 0
    /\ image_states = NoSessions
    /\ before = NoSessions
    /\ uploaded = NoSessions
    /\ window = MainWindow_init

CreateHybridImage ==
    /\ Fresh
    /\ \E image2 \in SecondImages, cutoff_low \in CutoffVals, cutoff_high \in CutoffVals,
          ub \in UBOutcomes :
        /\ call' = [op |-> "create_hybrid_image", image2 |-> image2,
                    cutoff_low |-> cutoff_low, cutoff_high |-> cutoff_high]
        /\ result' = create_hybrid_image(image, image2, cutoff_low, cutoff_high, ub)
        /\ UNCHANGED <<image, given, writes, server>>

HybridNext == CreateHybridImage \/ FrequencyFilter \/ ApplyFrequencyFilter

HybridSpec == HybridInit /\ [][HybridNext]_vars

LibNext == EdgeNext \/ NoiseNext \/ FilterNext \/ EnhanceNext \/ FrequencyNext

LibSpec == Init /\ [][LibNext]_vars

(***************************************************************************)
(* The caller storing a sample into a returned array, result[i, j] = v.    *)
(* When the call returned its argument (result.alias) the array written    *)
(* is the caller's input.                                                  *)
(***************************************************************************)
WriteVals == {7}
OutNames(r) == IF "buf" \in DOMAIN r THEN {"buf"} ELSE {"magnitude", "grad_x", "grad_y"}
Store(b, i, j, v) ==
    [b EXCEPT !.px[i][j] = IF b.ch = 0 THEN v ELSE <<v, v, v>>]

CallerWrites ==
    /\ result.status = "ok"
    /\ writes < MaxWrites
    /\ \E n \in OutNames(result), v \in WriteVals :
        \E p \in Pos(result[n]) :
            /\ result' = [result EXCEPT ![n] = Store(@, p[1], p[2], v)]
            /\ image' = IF result.alias THEN Store(image, p[1], p[2], v) ELSE image
    /\ writes' = writes + 1
    /\ UNCHANGED <<given, call, server>>

AliasNext ==
    \/ EdgeNext
    \/ FilterNext
    \/ EnhanceNext
    \/ FrequencyNext
    \/ AddNoiseUniform
    \/ AddNoiseUnknown
    \/ CallerWrites

AliasSpec == Init /\ [][AliasNext]_vars

(***************************************************************************)
(* Backend/main.py: the server.  image_states maps a session id to the     *)
(* session's original image, working image and history of working images.  *)
(* A handler is an operator from the store to the store it leaves and the  *)
(* response it sends; status 500 is an exception no handler catches.       *)
(***************************************************************************)
MaxImages == 3             \* the images the histories are followed to, all together
SessionIds == {1, 2}       \* the ids uuid4 hands out, in this order
UnknownId == 0             \* an id no upload has returned

\* cv2.imdecode of bytes that are no image
None == [h |-> 0, w |-> 0, ch |-> 0, dt |-> "None", px |-> <<>>]

\* read_image(file)
read_image(file) == IF file.decodable THEN file.img ELSE None

Response(status) == [status |-> status]
Reply(store, response) == [store |-> store, response |-> response]
\* raise HTTPException(status_code=404, detail="Session not found")
NotFound(store) == Reply(store, Response(404))
\* raise HTTPException(status_code=400, ...)
BadRequest(store) == Reply(store, Response(400))

\* image_to_base64(image): PNG cannot hold a float32 array
Encodable(b) == b.dt = "uint8"

\* faulty variant: the store is replaced by one that holds this session only
SetSession_Alone(store, session_id, state) ==
    [s \in {session_id} |-> state]

SetSession(store, session_id, state) ==
    [s \in DOMAIN store \cup {session_id} |->
        IF s = session_id THEN state ELSE store[s]]

\* upload_image(file); session_id is the uuid4 drawn.  None has no .copy(): the
\* exception is caught before anything is stored.  The three arrays stored are
\* three img.copy(): none of them is the array of another (alias).
upload_image(store, file, session_id) ==
    LET img == read_image(file)
    IN  IF img = None THEN BadRequest(store)
        ELSE Reply(SetSession(store, session_id,
                              [original |-> img, working |-> img, history |-> <<img>>]),
                   [status |-> 200, session_id |-> session_id, alias |-> FALSE,
                    original |-> img, working |-> img])

\* faulty variant: the last entry stays in the history
Popped_Kept(history) == history

\* state['history'].pop()
Popped(history) == SubSeq(history, 1, Len(history) - 1)

\* undo_image(session_id)
undo_image(store, session_id) ==
    IF session_id \notin DOMAIN store THEN NotFound(store)
    ELSE LET state == store[session_id]
             history == IF Len(state.history) > 1 THEN Popped(state.history)
                        ELSE state.history
             working == IF Len(state.history) > 1 THEN history[Len(history)]
                        ELSE state.working
         IN  Reply(SetSession(store, session_id,
                              [original |-> state.original, working |-> working,
                               history |-> history]),
                   [status |-> 200, working |-> working])

\* faulty variant: the history restarts from the working image
reset_image_FromWorking(store, session_id) ==
    IF session_id \notin DOMAIN store THEN NotFound(store)
    ELSE LET state == store[session_id]
         IN  Reply(SetSession(store, session_id,
                              [original |-> state.original, working |-> state.working,
                               history |-> <<state.working>>]),
                   [status |-> 200, working |-> state.working])

\* reset_image(session_id)
reset_image(store, session_id) ==
    IF session_id \notin DOMAIN store THEN NotFound(store)
    ELSE LET state == store[session_id]
         IN  Reply(SetSession(store, session_id,
                              [original |-> state.original, working |-> state.original,
                               history |-> <<state.original>>]),
                   [status |-> 200, working |-> state.original])

\* faulty variant: the result becomes the working image and is not appended
UpdateState_WorkingOnly(store, session_id, res) ==
    Reply(SetSession(store, session_id,
                     [original |-> store[session_id].original, working |-> res,
                      history |-> store[session_id].history]),
          [status |-> 200, result |-> res])

\* "# Update state": state['working'] = result.copy();
\* state['history'].append(result.copy()), then the response, whose
\* image_to_base64(result) comes after the update
UpdateState(store, session_id, res) ==
    Reply(SetSession(store, session_id,
                     [original |-> store[session_id].original, working |-> res,
                      history |-> Append(store[session_id].history, res)]),
          IF Encodable(res) THEN [status |-> 200, result |-> res] ELSE Response(500))

\* add_noise_endpoint(session_id, noise_type, mean, sigma, ratio); rnd holds the
\* draws of the random generator.  A noise_type outside the three known ones is
\* not rejected: params stays {} and add_noise returns the clipped copy.
add_noise_endpoint(store, session_id, noise_type, mean, sigma, ratio, rnd) ==
    IF session_id \notin DOMAIN store THEN NotFound(store)
    ELSE LET img == store[session_id].working
             params == IF noise_type = "gaussian"
                           THEN [mean |-> mean, sigma |-> sigma, z |-> rnd.z]
                       ELSE IF noise_type = "uniform"
                           THEN [low |-> -25, high |-> 25, t |-> rnd.t]
                       ELSE IF noise_type = "salt_pepper"
                           THEN [ratio |-> ratio, split |-> 500, draws |-> rnd.draws,
                                 tie |-> rnd.tie]
                       ELSE [none |-> 0]
         IN  UpdateState(store, session_id, add_noise(img, noise_type, params).buf)

\* faulty variant: the working image is appended before the type is looked at
apply_filter_endpoint_Unchecked(store, session_id, filter_type, kernel_size, e, lows) ==
    IF session_id \notin DOMAIN store THEN NotFound(store)
    ELSE LET img == store[session_id].working
             updated == UpdateState(store, session_id, img).store
         IN  IF filter_type = "average"
                 THEN UpdateState(store, session_id, apply_average_filter(img, kernel_size, lows))
             ELSE IF filter_type = "gaussian"
                 THEN UpdateState(store, session_id, apply_gaussian_filter(img, kernel_size, e, lows))
             ELSE IF filter_type = "median"
                 THEN UpdateState(store, session_id, apply_median_filter(img, kernel_size))
             ELSE BadRequest(updated)

\* apply_filter_endpoint(session_id, filter_type, kernel_size, sigma); e stands
\* for sigma as in create_gaussian_kernel and lows for the float rounding as in
\* convolve2d_manual
apply_filter_endpoint(store, session_id, filter_type, kernel_size, e, lows) ==
    IF session_id \notin DOMAIN store THEN NotFound(store)
    ELSE LET img == store[session_id].working
         IN  IF filter_type = "average"
                 THEN UpdateState(store, session_id, apply_average_filter(img, kernel_size, lows))
             ELSE IF filter_type = "gaussian"
                 THEN UpdateState(store, session_id, apply_gaussian_filter(img, kernel_size, e, lows))
             ELSE IF filter_type = "median"
                 THEN UpdateState(store, session_id, apply_median_filter(img, kernel_size))
             ELSE BadRequest(store)

\* faulty variant: the working image is taken without .copy() and is stored
\* again by the request
edge_detection_endpoint_Stored(store, session_id, edge_type, ub) ==
    IF session_id \notin DOMAIN store THEN NotFound(store)
    ELSE IF edge_type \in {"sobel", "roberts", "prewitt", "canny"}
        THEN Reply(UpdateState(store, session_id, store[session_id].working).store,
                   [status |-> 200, type |-> "multi"])
    ELSE BadRequest(store)

\* edge_detection_endpoint(session_id, edge_type, threshold1, threshold2): the
\* state is read and never assigned.  The response carries the edge maps as
\* PNG pictures; of it the model keeps the status and the 'type' field.
edge_detection_endpoint(store, session_id, edge_type, ub) ==
    IF session_id \notin DOMAIN store THEN NotFound(store)
    ELSE LET img == store[session_id].working
             Multi(r) == IF Encodable(r.magnitude) /\ Encodable(r.grad_x)
                            /\ Encodable(r.grad_y)
                         THEN Reply(store, [status |-> 200, type |-> "multi"])
                         ELSE Reply(store, Response(500))
         IN  IF edge_type = "sobel" THEN Multi(sobel_edge(img, ub))
             ELSE IF edge_type = "roberts" THEN Multi(roberts_edge(img, ub))
             ELSE IF edge_type = "prewitt" THEN Multi(prewitt_edge(img, ub))
             ELSE IF edge_type = "canny"
                 THEN Reply(store, [status |-> 200, type |-> "single"])
             ELSE BadRequest(store)

\* calculate_histogram(image): the counts of the grey levels that occur
calculate_histogram(b) ==
    LET gray == ToGray(b)
    IN  [v \in Samples(gray) |->
            Cardinality({p \in Pos(gray) : gray.px[p[1]][p[2]] = v})]

\* histogram_endpoint(session_id, hist_type): the plots are drawn from a copy of
\* the working image; plot_rgb_histograms returns None for a 2-D image
histogram_endpoint(store, session_id, hist_type) ==
    IF session_id \notin DOMAIN store THEN NotFound(store)
    ELSE LET img == store[session_id].working
         IN  IF hist_type = "grayscale"
                 THEN Reply(store, [status |-> 200, histogram |-> calculate_histogram(img)])
             ELSE IF hist_type = "rgb"
                 THEN Reply(store, [status |-> 200, rgb_histogram |-> img.ch = 3])
             ELSE BadRequest(store)

\* enhancement_endpoint(session_id, enhance_type, range_type)
enhancement_endpoint(store, session_id, enhance_type, range_type, ub) ==
    IF session_id \notin DOMAIN store THEN NotFound(store)
    ELSE LET img == store[session_id].working
         IN  IF enhance_type = "equalization"
                 THEN UpdateState(store, session_id, histogram_equalization(img))
             ELSE IF enhance_type = "normalization"
                 THEN UpdateState(store, session_id, normalize_image(img, range_type, ub).buf)
             ELSE IF enhance_type = "grayscale"
                 THEN UpdateState(store, session_id, rgb_to_grayscale(img, ub.low).buf)
             ELSE BadRequest(store)

\* frequency_endpoint(session_id, filter_type, cutoff)
frequency_endpoint(store, session_id, filter_type, cutoff, ub) ==
    IF session_id \notin DOMAIN store THEN NotFound(store)
    ELSE UpdateState(store, session_id,
                     apply_frequency_filter(store[session_id].working,
                                            filter_type, cutoff, ub).buf)

(***************************************************************************)
(* The requests a client sends.  image is the picture in the uploaded      *)
(* file; call is the request, result the response, before the store as the *)
(* request found it, and uploaded remembers what each upload decoded.      *)
(***************************************************************************)
RequestIds == SessionIds \cup {UnknownId}

UploadColors == {<<0, 0, 0>>, <<100, 50, 200>>}
\* cv2.imdecode(..., IMREAD_COLOR) gives three channels
UploadImages ==
    {Buf(1, 2, 3, "uint8",
         [i \in 1..1 |-> [j \in 1..2 |-> IF j = 1 THEN a ELSE <<100, 50, 200>>]]) :
        a \in UploadColors}

\* the picture a client uploads: image for the first session, and image with a
\* white first pixel after it, so that no two sessions start from equal pictures
Picture(img, store) ==
    IF DOMAIN store = {} THEN img
    ELSE Buf(img.h, img.w, 3, "uint8",
             [i \in 1..img.h |-> [j \in 1..img.w |->
                IF i = 1 /\ j = 1 THEN <<255, 255, 255>> ELSE img.px[i][j]]])

\* the files sent to /upload: a picture, or bytes that are no image
Files(img, store) ==
    {[decodable |-> TRUE, img |-> Picture(img, store)],
     [decodable |-> FALSE, img |-> None]}

\* uuid.uuid4(): an id not handed out before
FreshIds(store) ==
    {s \in SessionIds \ DOMAIN store : \A t \in SessionIds \ DOMAIN store : s <= t}

\* the number of images in the histories of the sessions in S
RECURSIVE Held(_, _)
Held(store, S) ==
    IF S = {} THEN 0
    ELSE LET s == CHOOSE t \in S : TRUE
         IN  Len(store[s].history) + Held(store, S \ {s})

\* the outcomes of the float operations of a request: the float-to-uint8
\* casts and the roundings next to the integers of zone.  A request that is
\* rejected consults none, one that computes no such cast no UBOutcomes.
Outcomes(session_id, casts, zone) ==
    IF session_id \in DOMAIN image_states /\ casts THEN FloatOutcomes(zone)
    ELSE IF session_id \in DOMAIN image_states
        THEN {[nan |-> 0, oor |-> "wrap", low |-> L] : L \in SUBSET zone}
    ELSE {[nan |-> 0, oor |-> "wrap", low |-> {}]}

\* the squared magnitudes next to an integer in an edge request on session_id
EdgeRequestZone(session_id, edge_type) ==
    IF session_id \notin DOMAIN image_states THEN {}
    ELSE LET gray == ToGray(image_states[session_id].working)
         IN  IF edge_type = "sobel"
                 THEN MagnitudeZone(convolve2d_edge(gray, SobelKx, 1),
                                    convolve2d_edge(gray, SobelKy, 1))
             ELSE IF edge_type = "prewitt"
                 THEN MagnitudeZone(convolve2d_edge(gray, PrewittKx, 1),
                                    convolve2d_edge(gray, PrewittKy, 1))
             ELSE IF edge_type = "roberts"
                 THEN MagnitudeZone(convolve2d_edge(gray, RobertsKx, 0),
                                    convolve2d_edge(gray, RobertsKy, 0))
             ELSE {}

\* the colours with a whole weighted sum in a grayscale request on session_id
GrayRequestZone(session_id, enhance_type) ==
    IF session_id \in DOMAIN image_states /\ enhance_type = "grayscale"
    THEN GrayZone(image_states[session_id].working)
    ELSE {}

\* a request is followed while the histories it leaves hold at most MaxImages
Served(request, reply) ==
    /\ Held(reply.store, DOMAIN reply.store) <= MaxImages
    /\ call' = request
    /\ result' = reply.response
    /\ image_states' = reply.store
    /\ before' = image_states
    /\ UNCHANGED <<image, given, writes, window>>

SessionInit ==
    /\ image \in UploadImages
    /\ given = image
    /\ call = NoCall
    /\ result = NoResult
    /\ writes = 0
    /\ image_states = NoSessions
    /\ before = NoSessions
    /\ uploaded = NoSessions
    /\ window = MainWindow_init

Upload ==
    \E file \in Files(image, image_states), session_id \in FreshIds(image_states) :
        /\ Served([op |-> "upload", decodable |-> file.decodable],
                  upload_image(image_states, file, session_id))
        /\ uploaded' = IF file.decodable
                       THEN [s \in DOMAIN uploaded \cup {session_id} |->
                                IF s = session_id THEN file.img ELSE uploaded[s]]
                       ELSE uploaded

Undo ==
    \E session_id \in RequestIds :
        /\ Served([op |-> "undo", session_id |-> session_id],
                  undo_image(image_states, session_id))
        /\ UNCHANGED uploaded

Reset ==
    \E session_id \in RequestIds :
        /\ Served([op |-> "reset", session_id |-> session_id],
                  reset_image(image_states, session_id))
        /\ UNCHANGED uploaded

SessionNoiseTypes == {"salt_pepper", "poisson"}
\* the draws of one request: z = 1 and t = 0 for every sample, and a salt draw
\* (0.010) for the first pixel of each row
SessionDraws(b) ==
    [z |-> [i \in 1..b.h |-> [j \in 1..b.w |-> IF b.ch = 0 THEN 1 ELSE <<1, 1, 1>>]],
     t |-> [i \in 1..b.h |-> [j \in 1..b.w |-> IF b.ch = 0 THEN 0 ELSE <<0, 0, 0>>]],
     draws |-> [i \in 1..b.h |-> [j \in 1..b.w |-> IF j = 1 THEN 10 ELSE 500]],
     tie |-> NoTie]

AddNoise ==
    \E session_id \in RequestIds, noise_type \in SessionNoiseTypes :
        /\ Served([op |-> "add_noise", session_id |-> session_id,
                   noise_type |-> noise_type],
                  add_noise_endpoint(image_states, session_id, noise_type, 0, 25, 50,
                      IF session_id \in DOMAIN image_states
                      THEN SessionDraws(image_states[session_id].working)
                      ELSE SessionDraws(None)))
        /\ UNCHANGED uploaded

SessionFilterTypes == {"median", "sharpen"}

ApplyFilter ==
    \E session_id \in RequestIds, filter_type \in SessionFilterTypes :
        /\ Served([op |-> "apply_filter", session_id |-> session_id,
                   filter_type |-> filter_type],
                  apply_filter_endpoint(image_states, session_id, filter_type, 3, 1, {}))
        /\ UNCHANGED uploaded

SessionEdgeTypes == {"sobel", "roberts", "prewitt", "canny", "laplacian"}

EdgeDetection ==
    \E session_id \in RequestIds, edge_type \in SessionEdgeTypes :
      \E ub \in Outcomes(session_id, edge_type \in {"sobel", "roberts", "prewitt"},
                         EdgeRequestZone(session_id, edge_type)) :
        /\ Served([op |-> "edge_detection", session_id |-> session_id,
                   edge_type |-> edge_type],
                  edge_detection_endpoint(image_states, session_id, edge_type, ub))
        /\ UNCHANGED uploaded

SessionHistTypes == {"grayscale", "rgb", "hsv"}

Histogram ==
    \E session_id \in RequestIds, hist_type \in SessionHistTypes :
        /\ Served([op |-> "histogram", session_id |-> session_id,
                   hist_type |-> hist_type],
                  histogram_endpoint(image_states, session_id, hist_type))
        /\ UNCHANGED uploaded

SessionEnhanceTypes == {"normalization", "grayscale", "invert"}

Enhancement ==
    \E session_id \in RequestIds, enhance_type \in SessionEnhanceTypes :
      \E ub \in Outcomes(session_id, enhance_type = "normalization",
                         GrayRequestZone(session_id, enhance_type)) :
        /\ Served([op |-> "enhancement", session_id |-> session_id,
                   enhance_type |-> enhance_type],
                  enhancement_endpoint(image_states, session_id, enhance_type,
                                       "0-255", ub))
        /\ UNCHANGED uploaded

Frequency ==
    \E session_id \in RequestIds :
      \E ub \in Outcomes(session_id, TRUE, {}) :
        /\ Served([op |-> "frequency", session_id |-> session_id,
                   filter_type |-> "low", cutoff |-> 1],
                  frequency_endpoint(image_states, session_id, "low", 1, ub))
        /\ UNCHANGED uploaded

SessionNext ==
    \/ Upload
    \/ Undo
    \/ Reset
    \/ AddNoise
    \/ ApplyFilter
    \/ EdgeDetection
    \/ Histogram
    \/ Enhancement
    \/ Frequency

SessionSpec == SessionInit /\ [][SessionNext]_vars

(***************************************************************************)
(* The desktop GUI: what the user does with the window.  Each handler runs *)
(* with the selections the combo boxes hold at the time.                    *)
(***************************************************************************)
Paths == {"a.png", "b.png"}
SaveTargets ==
    {"Gray (original)", "Original (RGB)", "Noisy", "Filtered",
     "Edges (Magnitude)", "Edges (X)", "Edges (Y)"}

\* the selections followed, of those the combo boxes offer
GuiNoiseTypes == {"Uniform", "Salt & Pepper"}
GuiFilterTypes == {"Median"}
GuiEdgeTypes == {"Sobel", "Canny"}

GuiInit ==
    /\ image = None
    /\ given = None
    /\ call = NoCall
    /\ result = NoResult
    /\ writes = 0
    /\ image_states = NoSessions
    /\ before = NoSessions
    /\ uploaded = NoSessions
    /\ window = MainWindow_init

Clicked(request, response, win) ==
    /\ call' = request
    /\ result' = response
    /\ window' = win
    /\ UNCHANGED <<image, given, writes, image_states, before, uploaded>>

OpenImage ==
    \E path \in Paths \cup {""}, readable \in BOOLEAN :
        Clicked([op |-> "open_image", path |-> path, readable |-> readable],
                [status |-> IF path = "" THEN "cancelled"
                            ELSE IF readable THEN "opened" ELSE "ValueError"],
                open_image(window, path, readable))

SaveEdited ==
    \E choice \in SaveTargets, path \in {"", "out.png"} :
        Clicked([op |-> "save_edited", choice |-> choice],
                save_edited(window, choice, path), window)

ApplyNoise ==
    \E noise_type \in GuiNoiseTypes :
        Clicked([op |-> "apply_noise", noise_type |-> noise_type],
                [status |-> "done"], apply_noise(window, noise_type))

GuiFilter ==
    \E filter_source \in {"Original", "Noisy (if available)"},
       filter_type \in GuiFilterTypes :
        Clicked([op |-> "apply_filter", filter_source |-> filter_source,
                 filter_type |-> filter_type],
                [status |-> "done"], apply_filter(window, filter_source, filter_type))

ApplyEdges ==
    \E edge_type \in GuiEdgeTypes :
        Clicked([op |-> "apply_edges", edge_type |-> edge_type],
                [status |-> "done"], apply_edges(window, edge_type))

GuiNext == OpenImage \/ SaveEdited \/ ApplyNoise \/ GuiFilter \/ ApplyEdges

GuiSpec == GuiInit /\ [][GuiNext]_vars

(***************************************************************************)
(* Claims.                                                                 *)
(***************************************************************************)
IsEdgeCall == call.op \in {"sobel_edge", "prewitt_edge", "roberts_edge"}
AllZero(b) == Samples(b) = {0}

\* C1: on a constant-value grayscale image sobel_edge, prewitt_edge and
\* roberts_edge return magnitude, gradX and gradY that are all zero, and no
\* channel is divided by its zero maximum (no 0/0, no NaN sample is cast).
C1_ConstantImageGuarded ==
    (IsEdgeCall /\ given.ch = 0 /\ IsConstant(given)) =>
        /\ AllZero(result.magnitude)
        /\ AllZero(result.grad_x)
        /\ AllZero(result.grad_y)
        /\ result.nan = {}

\* the all-255 pixel of a buffer of b's layout
White(b) == IF b.ch = 0 THEN 255 ELSE <<255, 255, 255>>

IsSaltPepperCall ==
    \/ call.op = "add_noise" /\ call.noise_type = "salt_pepper"
    \/ call.op = "add_salt_pepper_noise"

\* C2 as stated: salt-and-pepper noise with ratio = 1 and split = 1 sets every
\* sample of the output to 255, for every input and every draw.
C2_AllSaltOriginal ==
    (IsSaltPepperCall /\ call.ratio = 1000 /\ call.split = 1000) =>
        Samples(result.buf) = {255}

\* C2 amended: with ratio = 1 and split = 1 ops.add_salt_pepper_noise sets every
\* sample to 255; Backend add_noise clamps the ratio to 0.1 first, so it sets to
\* 255 (all channels) exactly the pixels whose draw is below 0.1 and leaves every
\* other pixel as it was.
C2_AllSaltAmended ==
    (IsSaltPepperCall /\ call.ratio = 1000 /\ call.split = 1000) =>
        /\ Shape(result.buf) = Shape(given)
        /\ call.op = "add_salt_pepper_noise" => Samples(result.buf) = {255}
        /\ call.op = "add_noise" =>
            \A p \in Pos(given) :
                result.buf.px[p[1]][p[2]] =
                    IF call.draws[p[1]][p[2]] < 100
                    THEN White(given)
                    ELSE given.px[p[1]][p[2]]

\* a Backend call with ratio = 1, split = 1 that leaves a non-white pixel alone
C2_Witness ==
    /\ call.op = "add_noise" /\ call.noise_type = "salt_pepper"
    /\ call.ratio = 1000 /\ call.split = 1000
    /\ \E p \in Pos(given) :
        /\ call.draws[p[1]][p[2]] = 500
        /\ result.buf.px[p[1]][p[2]] = given.px[p[1]][p[2]]
        /\ given.px[p[1]][p[2]] # White(given)
    /\ \E p \in Pos(given) :
        /\ call.draws[p[1]][p[2]] = 60
        /\ result.buf.px[p[1]][p[2]] = White(given)

\* C3: salt-and-pepper noise with ratio = 0 is the identity, for every input,
\* split and draw, in both implementations.
C3_RatioZeroIdentity ==
    (IsSaltPepperCall /\ call.ratio = 0) => result.buf = given

\* ratio = 0 with the extreme draws 0 and 0.96 on pixels that are neither 0 nor 255
C3_Witness ==
    /\ call.op = "add_noise" /\ call.noise_type = "salt_pepper"
    /\ call.ratio = 0 /\ call.split = 500
    /\ \E p \in Pos(given), q \in Pos(given) :
        /\ call.draws[p[1]][p[2]] = 0
        /\ call.draws[q[1]][q[2]] = 960
    /\ Samples(given) \cap {0, 255} = {}
    /\ result.status = "ok"

IsZeroKernel(kernel) ==
    \A a \in 1..Len(kernel.w), c \in 1..Len(kernel.w) : kernel.w[a][c] = 0

\* C7: convolve2d_manual with an all-zero kernel of odd size returns a buffer of
\* the input's shape whose every sample is 0, for grayscale and 3-channel input.
C7_ZeroKernelZeroOutput ==
    (call.op = "convolve2d_manual" /\ IsZeroKernel(call.kernel)
        /\ Len(call.kernel.w) % 2 = 1) =>
        /\ Shape(result.buf) = Shape(given)
        /\ Samples(result.buf) = {0}

\* a zero 3 x 3 kernel applied to a 3-channel image with no zero sample
C7_Witness ==
    /\ call.op = "convolve2d_manual" /\ IsZeroKernel(call.kernel)
    /\ Len(call.kernel.w) = 3
    /\ given.ch = 3 /\ given.h > 1 /\ given.w > 1
    /\ 0 \notin Samples(given)
    /\ Samples(result.buf) = {0}

IsBackendFilterCall ==
    call.op \in {"apply_average_filter", "apply_gaussian_filter", "apply_median_filter"}

\* C8: for every input and every kernel size >= 1 the average, Gaussian and
\* median filters return a buffer of the input's height, width and channel
\* count whose samples all lie in [0,255].
C8_FiltersKeepShapeAndRange ==
    (IsBackendFilterCall /\ call.kernel_size >= 1) =>
        /\ result.status = "ok"
        /\ Shape(result.buf) = Shape(given)
        /\ result.buf.dt = "uint8"
        /\ Samples(result.buf) \subseteq 0..255

\* a Gaussian filter with a kernel wider than the 3-channel image it is applied to
C8_Witness ==
    /\ call.op = "apply_gaussian_filter"
    /\ given.ch = 3 /\ ~IsConstant(given)
    /\ result.ksize > given.h /\ result.ksize > given.w
    /\ Shape(result.buf) = Shape(given)
    /\ result.buf # given

\* the filter functions of src/ops/filter_ops.py called directly
IsOpsFilterCall ==
    call.op \in {"ops.apply_average_filter", "ops.apply_gaussian_filter",
                 "ops.apply_median_filter"}

\* the result of the same filter call with another requested kernel size
SameFilterWith(k) ==
    IF call.op = "apply_average_filter" THEN Ok(apply_average_filter(given, k, call.lows))
    ELSE IF call.op = "apply_gaussian_filter"
        THEN Ok(apply_gaussian_filter(given, k, call.e, call.lows))
    ELSE IF call.op = "apply_median_filter" THEN Ok(apply_median_filter(given, k))
    ELSE IF call.op = "ops.apply_average_filter" THEN ops_apply_average_filter(given, k)
    ELSE IF call.op = "ops.apply_gaussian_filter"
        THEN ops_apply_gaussian_filter(given, k, call.e)
    ELSE IF call.op = "ops.apply_median_filter" THEN ops_apply_median_filter(given, k)
    ELSE MainWindow_apply_filter(given, call.filter_type, k, call.e)

\* C9: an even requested kernel size K is replaced by K + 1 before the filter
\* runs: the kernel applied is odd-sized and the call gives the result of the
\* call with K + 1, in the average, Gaussian and median filters of both
\* implementations (Backend/operations/filters.py and ops/filter_ops.py) and
\* in the GUI's apply_filter.
C9_EvenSizeForcedOdd ==
    ((IsBackendFilterCall \/ IsOpsFilterCall \/ call.op = "MainWindow.apply_filter")
        /\ call.kernel_size % 2 = 0) =>
        /\ result.status = "ok"
        /\ result.buf = SameFilterWith(call.kernel_size + 1).buf
        /\ IsBackendFilterCall => result.ksize = call.kernel_size + 1

IsFrequencyCall == call.op \in {"frequency_filter", "apply_frequency_filter"}
SumOfSamples(g) == SumSeq([i \in 1..g.h |-> SumSeq(g.px[i])])

\* C5: a low-pass filter with cutoff = 0 returns a constant 8-bit buffer whose
\* every sample is the mean intensity of the (grayscale) image, to within one
\* level, and the final rescale divides by no zero.
C5_CutoffZeroGivesMean ==
    (IsFrequencyCall /\ call.filter_type = "low" /\ call.cutoff = 0) =>
        /\ ~result.nan
        /\ \A v \in Samples(result.buf) :
               Abs(v * given.h * given.w - SumOfSamples(ToGray(given)))
                   <= given.h * given.w

\* C6: normalize_image on a buffer whose samples are all equal (zero or not)
\* divides by no zero and returns the input unchanged, in both modes.
C6_ConstantBufferUnchanged ==
    (call.op = "normalize_image" /\ call.range_type \in {"0-1", "0-255"}
        /\ IsConstant(given)) =>
        /\ ~result.nan
        /\ result.buf = given

HasUnknownMode ==
    \/ call.op = "add_noise"
        /\ call.noise_type \notin {"gaussian", "uniform", "salt_pepper"}
    \/ IsFrequencyCall /\ call.filter_type \notin {"low", "high"}

\* C4: an operation selected by a mode string reports an unrecognised string to
\* its caller as a failure; it returns no image for it.
C4_UnknownModeRejected == HasUnknownMode => result.status = "error"

\* C10: no library operation changes the array it is given, and no later store
\* into a returned array changes it either (the result never is the input).
C10_InputNeverChanges == image = given

EdgeComponents == {"magnitude", "grad_x", "grad_y"}

\* C11: every component an edge detector returns (magnitude, gradX, gradY) is a
\* uint8 buffer with samples in [0,255], none is returned as a float buffer, and
\* no negative or out-of-range value was cast to 8 bits on the way.
C11_EdgeComponentsAreU8 ==
    IsEdgeCall =>
        /\ \A c \in EdgeComponents :
               /\ result[c].dt = "uint8"
               /\ Samples(result[c]) \subseteq 0..255
        /\ result.oor = {}

IsGaussianCall ==
    \/ call.op = "add_noise" /\ call.noise_type = "gaussian"
    \/ call.op = "add_gaussian_noise"

\* the result of the same Gaussian call made with another sigma
SameGaussianWith(sigma) ==
    IF call.op = "add_noise"
    THEN add_noise(given, "gaussian", [mean |-> call.mean, sigma |-> sigma, z |-> call.z])
    ELSE add_gaussian_noise(given, call.mean, sigma, call.z)

\* the result of the same salt-and-pepper call made with another ratio
SameSaltPepperWith(ratio) ==
    IF call.op = "add_noise"
    THEN add_noise(given, "salt_pepper",
                   [ratio |-> ratio, split |-> call.split, draws |-> call.draws,
                    tie |-> call.tie])
    ELSE add_salt_pepper_noise(given, ratio, call.split, call.draws)

\* C12: every noise implementation clamps sigma to [0,50] and the salt-and-pepper
\* ratio to [0,0.1] before use: a call gives the result of the same call made
\* with the clamped parameter.
C12_NoiseParametersClamped ==
    /\ IsGaussianCall =>
           result.buf = SameGaussianWith(Clamp(call.sigma, 0, SigmaMax)).buf
    /\ IsSaltPepperCall =>
           result.buf = SameSaltPepperWith(Clamp(call.ratio, 0, RatioMax)).buf

IsHybridCall == call.op = "create_hybrid_image" /\ result.status = "ok"

\* every cell is kept by exactly one of the two masks
Complementary(m1, m2, rows, cols) ==
    \A y1 \in 1..rows, x1 \in 1..cols : m1[y1][x1] # m2[y1][x1]

\* the two masked spectra add up to the shifted spectrum, cell for cell
AddsUpTo(f1, f2, fshift, rows, cols) ==
    \A y1 \in 1..rows, x1 \in 1..cols :
        /\ f1[y1][x1][1] + f2[y1][x1][1] = fshift[y1][x1][1]
        /\ f1[y1][x1][2] + f2[y1][x1][2] = fshift[y1][x1][2]

\* C13: for every image size and cutoff the low-pass mask (distance <= cutoff)
\* and the high-pass mask (distance > cutoff) around the centre (rows // 2,
\* cols // 2) are exact complements, so the low-masked and the high-masked
\* spectrum add up to the shifted spectrum cell for cell.
C13_MasksAreComplements ==
    /\ IsHybridCall =>
        LET lo == result.low
            hi == result.high
            lo_high == HighMask(lo.h, lo.w, call.cutoff_low)
            hi_low == LowMask(hi.h, hi.w, call.cutoff_high)
        IN  /\ Complementary(lo.mask, lo_high, lo.h, lo.w)
            /\ AddsUpTo(lo.filtered, ApplyMask(lo.fshift, lo_high, lo.h, lo.w),
                        lo.fshift, lo.h, lo.w)
            /\ Complementary(hi_low, hi.mask, hi.h, hi.w)
            /\ AddsUpTo(ApplyMask(hi.fshift, hi_low, hi.h, hi.w), hi.filtered,
                        hi.fshift, hi.h, hi.w)
    /\ IsFrequencyCall =>
        \A y \in 0..(given.h - 1), x \in 0..(given.w - 1) :
            Mask("low", y, x, given.h, given.w, call.cutoff)
                # Mask("high", y, x, given.h, given.w, call.cutoff)

\* a 2 x 4 spectrum split by a cutoff of 1 into a kept and a dropped part, both
\* holding non-zero cells
C13_Witness ==
    /\ IsHybridCall /\ call.cutoff_low = 1
    /\ result.low.h = 2 /\ result.low.w = 4
    /\ \E y1 \in 1..2, x1 \in 1..4 :
           result.low.mask[y1][x1] /\ result.low.filtered[y1][x1] # <<0, 0>>
    /\ \E y1 \in 1..2, x1 \in 1..4 :
           ~result.low.mask[y1][x1] /\ result.low.fshift[y1][x1] # <<0, 0>>

\* C14: the hybrid output is 0.5 * low + 0.5 * high of the un-rescaled float
\* components, clamped to [0,255] before it is quantized to 8 bits (no value
\* outside [0,255] reaches the cast); the rescaled display copies do not feed it.
C14_HybridIsClampedSum ==
    IsHybridCall =>
        /\ \A i \in 1..result.hybrid.h, j \in 1..result.hybrid.w :
               result.hybrid.px[i][j] =
                   Clamp(TruncDiv(result.low.num[i][j] + result.high.num[i][j],
                                  2 * result.low.den), 0, 255)
        /\ ~result.oor

HybridOutputs == {"hybrid", "low_freq", "high_freq"}

\* C15: create_hybrid_image accepts two images of different dimensions and
\* channel counts, and its three outputs (hybrid, low_freq, high_freq) are
\* single-channel buffers of exactly image1's height and width.
C15_HybridOutputsFollowFirst ==
    call.op = "create_hybrid_image" =>
        /\ result.status = "ok"
        /\ \A n \in HybridOutputs :
               /\ result[n].ch = 0
               /\ result[n].h = given.h /\ result[n].w = given.w
               /\ DOMAIN result[n].px = 1..given.h
               /\ \A i \in 1..given.h : DOMAIN result[n].px[i] = 1..given.w

\* a 3-channel 2 x 4 first image with a grayscale, non-constant 2 x 2 second image
C15_Witness ==
    /\ call.op = "create_hybrid_image" /\ result.status = "ok"
    /\ given.ch = 3 /\ given.h = 2 /\ given.w = 4
    /\ call.image2.ch = 0 /\ call.image2.h = 2 /\ call.image2.w = 2
    /\ ~IsConstant(call.image2)
    /\ ~IsConstant(result.high_freq)
    /\ result.hybrid.h = 2 /\ result.hybrid.w = 4

(***************************************************************************)
(* Sessions (SessionSpec).                                                 *)
(***************************************************************************)
Last(history) == history[Len(history)]

StateChanging == {"add_noise", "apply_filter", "enhancement", "frequency"}
\* the request just served changed the state of a session it found
Changed ==
    /\ call.op \in StateChanging
    /\ result.status = 200
    /\ call.session_id \in DOMAIN before

\* C16: for every session, after any sequence of upload, add_noise,
\* apply_filter, enhancement, frequency, edge_detection, histogram, undo and
\* reset requests, the history is non-empty and the working image equals the
\* last entry of the history.
C16_WorkingIsLastOfHistory ==
    \A s \in DOMAIN image_states :
        /\ image_states[s].history # <<>>
        /\ image_states[s].working = Last(image_states[s].history)

\* an undo that took the second of two results off the history and brought
\* back a different working image
C16_Witness ==
    /\ call.op = "undo" /\ result.status = 200
    /\ Len(before[call.session_id].history) = 3
    /\ Len(image_states[call.session_id].history) = 2
    /\ image_states[call.session_id].working # before[call.session_id].working
    /\ image_states[call.session_id].working # image_states[call.session_id].original

\* the store after n undo requests on session s
RECURSIVE UndoTimes(_, _, _)
UndoTimes(store, s, n) ==
    IF n = 0 THEN store ELSE UndoTimes(undo_image(store, s).store, s, n - 1)

\* C17: a successful state-changing operation (add_noise, apply_filter,
\* enhancement, frequency) followed immediately by undo leaves every session,
\* the one operated on included, with the working image and history it had
\* before the operation; and for every session, as many undos as operations are
\* on its history bring the working image back to the uploaded original with
\* the original as the only history entry, after which an undo changes nothing.
C17_UndoRestores ==
    /\ Changed => undo_image(image_states, call.session_id).store = before
    /\ \A s \in DOMAIN image_states :
        LET n == Len(image_states[s].history) - 1
            undone == UndoTimes(image_states, s, n)
        IN  /\ undone[s].working = uploaded[s]
            /\ undone[s].history = <<uploaded[s]>>
            /\ \A t \in DOMAIN image_states \ {s} : undone[t] = image_states[t]
            /\ undo_image(undone, s).store = undone
            /\ undo_image(undone, s).response.status = 200

\* the second of two operations on a session, each of which changed the image
C17_Witness ==
    /\ Changed
    /\ Len(image_states[call.session_id].history) = 3
    /\ image_states[call.session_id].working # before[call.session_id].working
    /\ before[call.session_id].working # before[call.session_id].original
    /\ image_states[call.session_id].working # before[call.session_id].original

\* C18: a session's original image is never changed after upload: in every
\* reachable state it equals the image the upload decoded and the first entry
\* of the history equals it; a reset request leaves the session with working =
\* original and history = [original], from every state and when it has just
\* been served.
C18_OriginalIsKept ==
    /\ DOMAIN uploaded = DOMAIN image_states
    /\ \A s \in DOMAIN image_states :
        /\ image_states[s].original = uploaded[s]
        /\ image_states[s].history[1] = uploaded[s]
        /\ reset_image(image_states, s).store[s] =
               [original |-> uploaded[s], working |-> uploaded[s],
                history |-> <<uploaded[s]>>]
    /\ (call.op = "reset" /\ result.status = 200) =>
        /\ image_states[call.session_id] =
               [original |-> uploaded[call.session_id],
                working |-> uploaded[call.session_id],
                history |-> <<uploaded[call.session_id]>>]
        /\ result.working = uploaded[call.session_id]

\* a reset of a session whose history held two results and whose working image
\* was not the original
C18_Witness ==
    /\ call.op = "reset" /\ result.status = 200
    /\ Len(before[call.session_id].history) = 3
    /\ before[call.session_id].working # uploaded[call.session_id]
    /\ before[call.session_id].history[2] # uploaded[call.session_id]
    /\ image_states[call.session_id].working = uploaded[call.session_id]

\* the endpoints that look the session up, and the types each one accepts
SessionEndpoints ==
    {"undo", "reset", "add_noise", "apply_filter", "edge_detection", "histogram",
     "enhancement", "frequency"}
InvalidType ==
    \/ call.op = "apply_filter" /\ call.filter_type \notin {"average", "gaussian", "median"}
    \/ call.op = "edge_detection"
           /\ call.edge_type \notin {"sobel", "roberts", "prewitt", "canny"}
    \/ call.op = "histogram" /\ call.hist_type \notin {"grayscale", "rgb"}
    \/ call.op = "enhancement"
           /\ call.enhance_type \notin {"equalization", "normalization", "grayscale"}

\* C19: a rejected request leaves every session's original, working image and
\* history unchanged and creates no session: a request with an unknown
\* session_id on undo, reset, add_noise, apply_filter, edge_detection,
\* histogram, enhancement or frequency is answered 404, and an invalid filter,
\* edge, histogram or enhancement type on a known session is answered 400.
C19_RejectedLeavesState ==
    /\ call.op \in SessionEndpoints =>
        /\ call.session_id \notin DOMAIN before => result.status = 404
        /\ (call.session_id \in DOMAIN before /\ InvalidType) => result.status = 400
    /\ (call.op # "none" /\ result.status \in {400, 404}) =>
        /\ image_states = before
        /\ uploaded = [s \in DOMAIN before |-> before[s].original]

\* an invalid filter type sent to a session whose history holds a result, while
\* a second session exists
C19_Witness ==
    /\ call.op = "apply_filter" /\ InvalidType
    /\ result.status = 400
    /\ call.session_id \in DOMAIN image_states
    /\ Len(image_states[call.session_id].history) = 2
    /\ image_states[call.session_id].working # image_states[call.session_id].original
    /\ DOMAIN image_states = SessionIds

\* C20: the edge_detection and histogram endpoints are read-only: for every
\* edge type and histogram type, whatever the response, every session's
\* original, working image and history are as they were, so an undo that
\* follows does what it would have done before the request.
C20_ReadOnlyEndpoints ==
    call.op \in {"edge_detection", "histogram"} =>
        /\ image_states = before
        /\ \A s \in DOMAIN before :
               undo_image(image_states, s) = undo_image(before, s)

\* a Sobel edge detection served on a session whose working image is the
\* result of an operation
C20_Witness ==
    /\ call.op = "edge_detection" /\ call.edge_type = "sobel"
    /\ result.status = 200
    /\ Len(image_states[call.session_id].history) = 2
    /\ image_states[call.session_id].working # image_states[call.session_id].original
    /\ undo_image(image_states, call.session_id).store[call.session_id].working
           = image_states[call.session_id].original

(***************************************************************************)
(* Edge operators and filters, continued.                                  *)
(***************************************************************************)
\* the sample at (r, c) of an image extended with zero-valued samples
ZeroExtended(g, r, c) == IF r \in 1..g.h /\ c \in 1..g.w THEN g.px[r][c] ELSE 0

\* the 2x2 gradient at every pixel over the zero-extended image
ZeroPaddedGradient(g, kernel) ==
    Buf(g.h, g.w, 0, "float32",
        [i \in 1..g.h |-> [j \in 1..g.w |->
            SumSeq([a \in 1..2 |->
                SumSeq([c \in 1..2 |->
                    ZeroExtended(g, i + a - 1, j + c - 1) * kernel[a][c]])])]])

\* C22: roberts_edge computes its 2x2 gradients over the image extended with
\* zero-valued samples: in the last row and last column the neighbours outside
\* the image contribute 0, so what it returns is what the zero-padded gradients
\* give.
C22_RobertsZeroPadded ==
    call.op = "roberts_edge" =>
        LET gray == ToGray(given)
            gx == ZeroPaddedGradient(gray, RobertsKx)
            gy == ZeroPaddedGradient(gray, RobertsKy)
        IN  /\ convolve2d_edge(gray, RobertsKx, 0) = gx
            /\ convolve2d_edge(gray, RobertsKy, 0) = gy
            /\ \E ub \in FloatOutcomes(MagnitudeZone(gx, gy)) :
                   result = EdgeResult(MagnitudeU8(gx, gy, ub),
                                       ScaleByMaxGuarded(AbsBuf(gx), ub),
                                       ScaleByMaxGuarded(gy, ub))

\* the kernels and pad width an edge operator convolves with
EdgeKernels(op) ==
    CASE op = "sobel_edge" -> [x |-> SobelKx, y |-> SobelKy, pad |-> 1]
      [] op = "prewitt_edge" -> [x |-> PrewittKx, y |-> PrewittKy, pad |-> 1]
      [] op = "roberts_edge" -> [x |-> RobertsKx, y |-> RobertsKy, pad |-> 0]

\* a returned channel rescaled by its own maximum: 8-bit, largest sample 255
FullScale(b) ==
    /\ b.dt = "uint8"
    /\ MaxOf(Samples(b)) = 255
    /\ MinOf(Samples(b)) >= 0

\* C23: in sobel_edge, prewitt_edge and roberts_edge the magnitude, gradX and
\* gradY are each rescaled by their own maximum: every one of the three whose
\* buffer is not all zero is returned with largest sample 255 and smallest
\* sample >= 0, whatever the other two hold.
C23_EachScaledByOwnMax ==
    IsEdgeCall =>
        LET gray == ToGray(given)
            k == EdgeKernels(call.op)
            gx == convolve2d_edge(gray, k.x, k.pad)
            gy == convolve2d_edge(gray, k.y, k.pad)
        IN  /\ ~(AllZero(gx) /\ AllZero(gy)) => FullScale(result.magnitude)
            /\ ~AllZero(gx) => FullScale(result.grad_x)
            /\ ~AllZero(gy) => FullScale(result.grad_y)

IsConvolutionCall ==
    call.op \in {"convolve2d_manual", "apply_average_filter", "apply_gaussian_filter"}

\* the kernel a convolution call runs with
KernelOf(c) ==
    IF c.op = "convolve2d_manual" THEN c.kernel
    ELSE IF c.op = "apply_average_filter" THEN AverageKernel(OddSize(c.kernel_size))
    ELSE create_gaussian_kernel(OddSize(c.kernel_size), c.e)

\* sum over the K x K window of kernel[a][c] times the sample at
\* (i + a - K \div 2, j + c - K \div 2), a and c from 0, indices clamped to the plane
ClampedWindowSum(g, kernel, i, j) ==
    LET K == Len(kernel.w)
    IN  SumSeq([a \in 1..K |->
            SumSeq([c \in 1..K |->
                kernel.w[a][c] * g.px[Clamp(i + (a - 1) - K \div 2, 1, g.h)]
                                     [Clamp(j + (c - 1) - K \div 2, 1, g.w)]])])

PlaneOf(b, n) == IF b.ch = 3 THEN Channel(b, n) ELSE b
ChannelsOf(b) == IF b.ch = 3 THEN 1..3 ELSE {1}

\* the number of 255-valued cells of the 3 x 3 window centred on (i, j)
BrightCells(g, i, j) ==
    Cardinality({d \in (-1..1) \X (-1..1) : g.px[i + d[1]][j + d[2]] = 255})

IsCheckerboard(g) ==
    /\ g.ch = 0 /\ g.h = 3 /\ g.w = 3
    /\ \A p \in Pos(g) : g.px[p[1]][p[2]] = (IF (p[1] + p[2]) % 2 = 0 THEN g.px[1][1]
                                             ELSE 255 - g.px[1][1])
    /\ g.px[1][1] \in {0, 255}

\* C24: convolve2d_manual computes each output sample as the sum over the
\* K x K window of kernel weight times input sample, out-of-range indices
\* clamped to the nearest valid one (edge replication, never zero padding); a
\* kernel whose weights sum to 1 returns a constant image unchanged, borders
\* included, and a 3 x 3 average over a 0/255 checkerboard makes the interior
\* sample 255 * (number of 255-valued window cells) / 9.
C24_ClampedWindowSum ==
    IsConvolutionCall =>
        LET kernel == KernelOf(call)
            pad == Len(kernel.w) \div 2
        IN  /\ \A n \in ChannelsOf(given), p \in Pos(given) :
                   LET g == PlaneOf(given, n)
                       sum == ClampedWindowSum(g, kernel, p[1], p[2])
                       out == PlaneOf(result.buf, n).px[p[1]][p[2]]
                   IN  /\ convolve2d_single_channel(g, kernel, pad).px[p[1]][p[2]] = sum
                       /\ out \in {ClipU8Low(sum, kernel.den), ClipU8High(sum, kernel.den)}
            /\ (KSum(kernel.w) = kernel.den /\ IsConstant(given)) => result.buf = given
            /\ (call.op = "apply_average_filter" /\ Len(kernel.w) = 3
                    /\ IsCheckerboard(given)) =>
                   /\ ClampedWindowSum(given, kernel, 2, 2) = 255 * BrightCells(given, 2, 2)
                   /\ result.buf.px[2][2] = (255 * BrightCells(given, 2, 2)) \div 9

\* num / den clipped to [0,255] and then rounded to the nearest integer
NearestU8(num, den) == Clamp((2 * num + den) \div (2 * den), 0, 255)

\* C25: the convolution result is quantized by clipping the weighted sum to
\* [0,255] and then rounding it to the nearest integer, not by truncating it: a
\* weighted sum of 141.67 becomes the sample 142.
C25_RoundedToNearest ==
    IsConvolutionCall =>
        \A n \in ChannelsOf(given), p \in Pos(given) :
            PlaneOf(result.buf, n).px[p[1]][p[2]]
                = NearestU8(ClampedWindowSum(PlaneOf(given, n), KernelOf(call), p[1], p[2]),
                            KernelOf(call).den)

\* the cells of the K x K window centred on (i, j), as offsets from the centre
WindowOffsets(K) == ((-(K \div 2))..(K \div 2)) \X ((-(K \div 2))..(K \div 2))

\* the sample of the edge-replicated plane at offset d from (i, j)
Replicated(g, i, j, d) == g.px[Clamp(i + d[1], 1, g.h)][Clamp(j + d[2], 1, g.w)]

\* v is the middle value of the window: it is in the window, and fewer than
\* half of the cells are below it and fewer than half above it
IsMedianAt(g, K, i, j, v) ==
    LET D == WindowOffsets(K)
    IN  /\ \E d \in D : Replicated(g, i, j, d) = v
        /\ 2 * Cardinality({d \in D : Replicated(g, i, j, d) < v}) < K * K
        /\ 2 * Cardinality({d \in D : Replicated(g, i, j, d) > v}) < K * K

\* C26: apply_median_filter sets every output sample, each channel on its own,
\* to the median of the K x K edge-replicated window centred on the pixel (K
\* odd after normalization): the sample is one of the window's values, K = 1
\* is the identity and a constant image is returned unchanged.
C26_MedianOfReplicatedWindow ==
    call.op = "apply_median_filter" =>
        LET K == OddSize(call.kernel_size)
        IN  /\ K % 2 = 1 /\ result.ksize = K
            /\ Shape(result.buf) = Shape(given)
            /\ \A n \in ChannelsOf(given), p \in Pos(given) :
                   IsMedianAt(PlaneOf(given, n), K, p[1], p[2],
                              PlaneOf(result.buf, n).px[p[1]][p[2]])
            /\ K = 1 => result.buf = given
            /\ IsConstant(given) => result.buf = given

\* a median over 3 x 3 windows (requested as 2) of a 3-channel image that is
\* not constant, which changes a sample on the border
C26_Witness ==
    /\ call.op = "apply_median_filter" /\ call.kernel_size = 2
    /\ result.ksize = 3
    /\ given.ch = 3 /\ given.h = 3 /\ given.w = 3
    /\ ~IsConstant(given)
    /\ result.buf.px[3][3] # given.px[3][3]

(***************************************************************************)
(* Noise, continued.                                                       *)
(***************************************************************************)
\* what the draw d of a pixel decides, for the ratio in force and the split
SaltPepperDecision(d, ratio, split) ==
    IF d * 1000 < ratio * split THEN "salt"
    ELSE IF d * 1000 > 1000000 - ratio * (1000 - split) THEN "pepper"
    ELSE "keep"

\* C27: salt-and-pepper noise draws one value per pixel position and applies
\* its decision to all channels: in the output of a 3-channel image every
\* pixel is all-255 (draw < ratio * split), all-0 (draw > 1 - ratio * (1 -
\* split)) or the input pixel in all three channels; none has only some of
\* its channels replaced.
C27_OneDrawPerPixel ==
    (IsSaltPepperCall /\ given.ch = 3) =>
        \A p \in Pos(given) :
            LET decision == SaltPepperDecision(call.draws[p[1]][p[2]],
                                               Clamp(call.ratio, 0, RatioMax), call.split)
                out == result.buf.px[p[1]][p[2]]
            IN  /\ out \in {<<255, 255, 255>>, <<0, 0, 0>>, given.px[p[1]][p[2]]}
                /\ decision = "salt" => out = <<255, 255, 255>>
                /\ decision = "pepper" => out = <<0, 0, 0>>
                /\ decision = "keep" => out = given.px[p[1]][p[2]]

(***************************************************************************)
(* The desktop GUI (GuiSpec).                                              *)
(***************************************************************************)
\* C21: after open_image has loaded an image, whatever save_edited writes
\* (gray, original, noisy, filtered, edge magnitude, edge X, edge Y) was
\* derived from the image that is loaded now; a target that has nothing from
\* this image is reported as not available, and no result computed from an
\* image loaded earlier is written.
C21_SavedFromLoadedImage ==
    call.op = "save_edited" =>
        \/ result.status \in {"not available", "cancelled"}
        \/ /\ result.status = "written"
           /\ result.to_save.file = window.original_bgr.file

\* the sessions other than the one a request names
OtherSessions(store, session_id) == DOMAIN store \ {session_id}

\* C28: sessions are isolated.  A request that carries a session id leaves the
\* original, working and history of every other session as they were and
\* creates no session; a successful upload adds one session, leaves the
\* existing ones as they were, and stores the uploaded image as the original,
\* the working image and the only history entry of the new session, in three
\* arrays of which none is another; a rejected upload leaves the store as it was.
C28_SessionsIsolated ==
    /\ call.op \in SessionEndpoints =>
           /\ DOMAIN image_states = DOMAIN before
           /\ \A B \in OtherSessions(before, call.session_id) :
                  image_states[B] = before[B]
    /\ (call.op = "upload" /\ result.status = 200) =>
           /\ result.session_id \notin DOMAIN before
           /\ DOMAIN image_states = DOMAIN before \cup {result.session_id}
           /\ \A B \in DOMAIN before : image_states[B] = before[B]
           /\ image_states[result.session_id] =
                  [original |-> uploaded[result.session_id],
                   working |-> uploaded[result.session_id],
                   history |-> <<uploaded[result.session_id]>>]
           /\ ~result.alias
    /\ (call.op = "upload" /\ result.status # 200) => image_states = before

\* a request changed the working image and the history of its session while
\* another session, holding another picture, was in the store
C28_Witness ==
    /\ call.op \in {"add_noise", "apply_filter", "undo", "reset"}
    /\ result.status = 200
    /\ image_states[call.session_id].working # before[call.session_id].working
    /\ image_states[call.session_id].history # before[call.session_id].history
    /\ \E B \in OtherSessions(before, call.session_id) :
           /\ before[B].working # before[call.session_id].working
           /\ before[B].working # image_states[call.session_id].working


====
